---- MODULE Spec2Model ----
(***************************************************************************)
(* Client-side batch operations of src/src/services/api.js:                *)
(*   batchUpdateStudentsClient          (bounded concurrent runner)        *)
(*   batchDeleteStudentsClient          (single bulk call)                 *)
(*   batchRemoveStudentsFromClassClient (single bulk call)                 *)
(*                                                                         *)
(* JavaScript values are records tagged by their typeof-like kind in field *)
(* t.  A JavaScript string is a sequence of one-character strings, so that *)
(* String(), Number() and trim() are computed character by character.      *)
(* The event loop is single threaded: one action is one macrotask together *)
(* with the microtasks (promise continuations) it triggers.                *)
(***************************************************************************)
EXTENDS Integers, Sequences, FiniteSets, TLC

(***************************************************************************)
(* Bounds of the model.                                                    *)
(***************************************************************************)
MaxLen == 3          \* longest raw studentIds array that is tried
MaxK == 2            \* largest explicit concurrency option that is tried

(***************************************************************************)
(* JavaScript values.                                                      *)
(***************************************************************************)
Undefined == [t |-> "undefined"]
Null == [t |-> "null"]
NaN == [t |-> "number", nan |-> TRUE, n |-> 0]
Num(n) == [t |-> "number", nan |-> FALSE, n |-> n]
Str(s) == [t |-> "string", s |-> s]
Obj(f) == [t |-> "object", f |-> f]
EmptyFields == [k \in {} |-> Undefined]

Digits == <<"0", "1", "2", "3", "4", "5", "6", "7", "8", "9">>
IsDigit(c) == \E i \in 1..Len(Digits) : Digits[i] = c
DigitValue(c) == (CHOOSE i \in 1..Len(Digits) : Digits[i] = c) - 1
IsSpace(c) == c = " "

\* String.prototype.trim: strip the white space at both ends
RECURSIVE TrimLeft(_)
TrimLeft(s) == IF s # <<>> /\ IsSpace(Head(s)) THEN TrimLeft(Tail(s)) ELSE s
RECURSIVE TrimRight(_)
TrimRight(s) ==
    IF s # <<>> /\ IsSpace(s[Len(s)]) THEN TrimRight(SubSeq(s, 1, Len(s) - 1)) ELSE s
Trim(s) == TrimRight(TrimLeft(s))

\* value of a sequence of decimal digits
RECURSIVE DecimalValue(_)
DecimalValue(s) ==
    IF s = <<>> THEN 0
    ELSE 10 * DecimalValue(SubSeq(s, 1, Len(s) - 1)) + DigitValue(s[Len(s)])

\* decimal digits of a natural number
RECURSIVE NatToString(_)
NatToString(n) ==
    IF n < 10 THEN <<Digits[n + 1]>>
    ELSE NatToString(n \div 10) \o <<Digits[(n % 10) + 1]>>

\* Number(v): the strings of the model are white space, digits and letters,
\* the numbers are naturals
Number(v) ==
    CASE v.t = "undefined" -> NaN
      [] v.t = "null" -> Num(0)
      [] v.t = "number" -> v
      [] v.t = "string" ->
            LET core == Trim(v.s)
            IN  IF core = <<>> THEN Num(0)
                ELSE IF \A i \in 1..Len(core) : IsDigit(core[i])
                     THEN Num(DecimalValue(core))
                     ELSE NaN
      [] OTHER -> NaN

\* String(v)
String(v) ==
    CASE v.t = "undefined" -> <<"u", "n", "d", "e", "f", "i", "n", "e", "d">>
      [] v.t = "null" -> <<"n", "u", "l", "l">>
      [] v.t = "number" -> IF v.nan THEN <<"N", "a", "N">> ELSE NatToString(v.n)
      [] v.t = "string" -> v.s
      [] OTHER -> <<"[", "o", "b", "j", "e", "c", "t", "]">>

IsNaN(v) == v.t = "number" /\ v.nan

Truthy(v) ==
    CASE v.t = "undefined" -> FALSE
      [] v.t = "null" -> FALSE
      [] v.t = "number" -> ~v.nan /\ v.n # 0
      [] v.t = "string" -> v.s # <<>>
      [] OTHER -> TRUE

\* a || b
OrElse(a, b) == IF Truthy(a) THEN a ELSE b

HasOwn(v, k) == v.t = "object" /\ k \in DOMAIN v.f
\* v?.k
OptGet(v, k) == IF HasOwn(v, k) THEN v.f[k] ELSE Undefined

\* an array value
Arr(a) == [t |-> "array", a |-> a]

(***************************************************************************)
(* Pure parts of batchUpdateStudentsClient.                                *)
(***************************************************************************)
\* the concurrency option when the caller gives none
DefaultConcurrency == 5

\* lines 131-138: the semester entry of allowed
SanitizeSemester(updates, allowed) ==
    IF HasOwn(updates, "semester")
    THEN LET s == updates.f["semester"]
             v == IF s = Str(<<>>) \/ s = Null \/ s = Undefined
                  THEN Undefined
                  ELSE Number(s)
         IN  IF IsNaN(v) THEN allowed ELSE allowed @@ ("semester" :> v)
    ELSE allowed

\* a division check that forgets to trim
SanitizeDivisionNoTrim(updates, allowed) ==
    IF HasOwn(updates, "division")
    THEN LET d == updates.f["division"]
         IN  IF d # Null /\ d # Undefined /\ String(d) # <<>>
             THEN allowed @@ ("division" :> Str(String(d)))
             ELSE allowed
    ELSE allowed

\* lines 139-144: the division entry of allowed
SanitizeDivision(updates, allowed) ==
    IF HasOwn(updates, "division")
    THEN LET d == updates.f["division"]
         IN  IF d # Null /\ d # Undefined /\ Trim(String(d)) # <<>>
             THEN allowed @@ ("division" :> Str(String(d)))
             ELSE allowed
    ELSE allowed

\* lines 129-145: the fields of the object allowed
Sanitize(updates) ==
    IF Truthy(updates) /\ updates.t = "object"
    THEN SanitizeDivision(updates, SanitizeSemester(updates, EmptyFields))
    ELSE EmptyFields

\* a pre-flight check that lets every update through
NothingToSendNever(allowed) == FALSE

\* line 148: Object.keys(allowed).length === 0
NothingToSend(allowed) == DOMAIN allowed = {}

\* the Error thrown at line 149
NoValidFieldsError == Obj([message |-> Str(<<"N", "o", " ", "v", "a", "l", "i", "d">>)])

\* a dedupe that puts the later first occurrences first
RECURSIVE UniqueNewestFirst(_, _)
UniqueNewestFirst(list, seen) ==
    IF list = <<>> THEN <<>>
    ELSE IF Head(list) \in seen
         THEN UniqueNewestFirst(Tail(list), seen)
         ELSE UniqueNewestFirst(Tail(list), seen \cup {Head(list)}) \o <<Head(list)>>

\* an id list that keeps its repeats
UniqueKeepsRepeats(list, seen) == list

\* Array.from(new Set(list)): first occurrences, in order
RECURSIVE Unique(_, _)
Unique(list, seen) ==
    IF list = <<>> THEN <<>>
    ELSE IF Head(list) \in seen
         THEN Unique(Tail(list), seen)
         ELSE <<Head(list)>> \o Unique(Tail(list), seen \cup {Head(list)})

\* Array.from(new Set((studentIds || []).map(String)))
Dedupe(studentIds) ==
    LET list == IF Truthy(studentIds) THEN studentIds.a ELSE <<>>
    IN  Unique([i \in 1..Len(list) |-> String(list[i])], {})

\* err?.response?.data || err?.message || err
ErrorOf(err) ==
    OrElse(OrElse(OptGet(OptGet(err, "response"), "data"), OptGet(err, "message")), err)

\* a runner that starts at least one worker when there is an id
WorkerCountAtLeastOne(concurrency, n) ==
    LET k == IF concurrency = Undefined THEN DefaultConcurrency ELSE concurrency.n
        m == IF k < n THEN k ELSE n
    IN  IF m >= 1 THEN m ELSE IF n >= 1 THEN 1 ELSE 0

\* a runner that starts one worker per id, whatever the concurrency option
WorkerCountPerId(concurrency, n) == n

\* Math.min(concurrency, ids.length) as the length of the workers array
WorkerCount(concurrency, n) ==
    LET k == IF concurrency = Undefined THEN DefaultConcurrency ELSE concurrency.n
        m == IF k < n THEN k ELSE n
    IN  IF m < 0 THEN 0 ELSE m

(***************************************************************************)
(* The arguments the entry points are called with.                         *)
(***************************************************************************)
Restrict(f, keys) == [k \in keys |-> f[k]]

IdInputs == {Str(<<"a">>), Str(<<"b">>), Str(<<"1">>), Num(1)}
StudentIdsInputs ==
    {Null, Undefined} \cup {Arr(a) : a \in UNION {[1..n -> IdInputs] : n \in 0..MaxLen}}
FewStudentIdsInputs == {Null, Arr(<<>>), Arr(<<Str(<<"a">>), Num(1)>>)}

SemesterInputs ==
    {Str(<<>>), Null, Undefined, Str(<<"a", "b", "c">>), Str(<<"5">>), Str(<<" ", "5">>),
     Num(5)}
DivisionInputs == {Null, Undefined, Str(<<" ", " ">>), Str(<<"A">>), Str(<<" ", "A">>), Num(7)}
ExtraInputs == {Str(<<"x">>)}
UpdatesInputs ==
    {Null, Undefined, Str(<<"x">>)} \cup
    {Obj(Restrict(f, keys)) :
        f \in [semester : SemesterInputs, division : DivisionInputs, extra : ExtraInputs],
        keys \in SUBSET {"semester", "division", "extra"}}
\* {semester: "5", division: "A", extra: "x"}
FullUpdate ==
    Obj([semester |-> Str(<<"5">>), division |-> Str(<<"A">>), extra |-> Str(<<"x">>)])

ConcurrencyInputs == {Undefined} \cup {Num(k) : k \in (-1)..MaxK}
\* onProgress: not given, a callback that returns, a callback that may throw
OnProgressInputs == {"absent", "returns", "mayThrow"}

\* what a network call can reject with: an HTTP error with a body, a network
\* error with a message only, a thrown primitive
HttpError ==
    Obj([response |-> Obj([data |-> Str(<<"4", "0", "4">>)]), message |-> Str(<<"h">>)])
NetworkError == Obj([message |-> Str(<<"n", "e", "t">>)])
RawError == Str(<<"r", "a", "w">>)
Errors == {HttpError, NetworkError, RawError}
Ok == [t |-> "fulfilled"]
Outcomes == {Ok} \cup Errors
\* what a throwing onProgress throws
CallbackError == Obj([message |-> Str(<<"c", "b">>)])

UpdateArgs ==
    [fn : {"update"}, studentIds : StudentIdsInputs, updates : {FullUpdate},
     concurrency : ConcurrencyInputs, onProgress : OnProgressInputs]
    \cup
    [fn : {"update"}, studentIds : FewStudentIdsInputs, updates : UpdatesInputs,
     concurrency : {Undefined}, onProgress : {"returns"}]
BulkArgs ==
    [fn : {"delete", "remove"}, studentIds : StudentIdsInputs, updates : {Undefined},
     concurrency : {Undefined}, onProgress : OnProgressInputs]

(***************************************************************************)
(* State.                                                                  *)
(***************************************************************************)
VARIABLES
    phase,      \* the promise of the entry point: idle, running, resolved, rejected
    args,       \* the arguments of the call
    allowed,    \* the sanitized update (fields of the object)
    ids,        \* the deduplicated ids
    queue,      \* ids not yet taken by a worker
    results,    \* { success, failed }
    done,       \* the done counter
    workers,    \* per worker: awaiting its updateStudent call, returned, or threw
    bulk,       \* the single call of the bulk variants: none, pending, fulfilled,
                \* rejected
    calls,      \* the network calls started so far, in order
    progress,   \* the arguments of the onProgress invocations so far, in order
    ret,        \* what the promise resolved or rejected with
    other,      \* a second invocation of batchUpdateStudentsClient with its own
                \* allowed, ids, queue, results, done, workers (a record of them)
    norm,       \* a call of a response normalizer: function, response body, result
    page,       \* the state of StudentPage and its handlers that await something
    auth        \* the state of AuthProvider, localStorage and its pending requests

vars == <<phase, args, allowed, ids, queue, results, done, workers, bulk, calls,
          progress, ret, other, norm, page, auth>>

NoArgs == [fn |-> "none"]
\* the second invocation and the normalizer before they are called
NoInvocation == [phase |-> "idle"]
NoNormalizerCall == [fn |-> "none"]
\* no notification of a batch handler shown yet
NoToast == [kind |-> "none"]
\* StudentPage as its useState calls create it (part_000 lines 477-512), not
\* yet mounted, with no handler awaiting anything and no getStudents call
\* in flight
InitialPage ==
    [mounted |-> FALSE, selectedIds |-> <<>>, showSelection |-> FALSE,
     batchModalOpen |-> FALSE, progressOpen |-> FALSE,
     progress |-> [done |-> 0, total |-> 0], batchUpdating |-> FALSE,
     toast |-> NoToast, fetching |-> 0, handlers |-> <<>>]
\* no AuthProvider rendered
NoAuthProvider == [variant |-> 0]
EmptyResults == [success |-> <<>>, failed |-> <<>>]

Init ==
    /\ phase = "idle"
    /\ args = NoArgs
    /\ allowed = EmptyFields
    /\ ids = <<>>
    /\ queue = <<>>
    /\ results = EmptyResults
    /\ done = 0
    /\ workers = <<>>
    /\ bulk = "none"
    /\ calls = <<>>
    /\ progress = <<>>
    /\ ret = Undefined
    /\ other = NoInvocation
    /\ norm = NoNormalizerCall
    /\ page = InitialPage
    /\ auth = NoAuthProvider

UpdateCall(id, payload) == [op |-> "updateStudent", id |-> id, payload |-> payload]
Awaiting(id) == [st |-> "await", id |-> id]
Returned == [st |-> "returned", id |-> <<>>]
Threw == [st |-> "threw", id |-> <<>>]

\* a queue that loses its last element while its first one is taken
ShiftLast(q) == SubSeq(q, 1, Len(q) - 1)

\* line 160: what queue.shift() leaves in the queue
Shift(q) == Tail(q)

\* lines 159-162 from the top of the loop: take the next id and start its
\* call, or leave the loop
EnterLoop(q) == IF q # <<>> THEN Awaiting(Head(q)) ELSE Returned
QueueAfterEnterLoop(q) == IF q # <<>> THEN Shift(q) ELSE q

\* lines 173-175: start count workers one after the other; each runs up to
\* its first await
RECURSIVE Spawn(_, _)
Spawn(count, q) ==
    IF count = 0 THEN <<>>
    ELSE <<EnterLoop(q)>> \o Spawn(count - 1, QueueAfterEnterLoop(q))
RECURSIVE QueueAfterSpawn(_, _)
QueueAfterSpawn(count, q) ==
    IF count = 0 THEN q ELSE QueueAfterSpawn(count - 1, QueueAfterEnterLoop(q))

InFlight == {w \in DOMAIN workers : workers[w].st = "await"}

\* the updateStudent calls started while spawning, in order
RECURSIVE CallsOf(_, _)
CallsOf(ws, payload) ==
    IF ws = <<>> THEN <<>>
    ELSE (IF Head(ws).st = "await" THEN <<UpdateCall(Head(ws).id, payload)>> ELSE <<>>)
         \o CallsOf(Tail(ws), payload)

\* Promise.any(workers): fulfilled as soon as one worker has returned
AnyFulfilled(ws) == \E w \in DOMAIN ws : ws[w].st = "returned"

\* line 176: Promise.all(workers) is fulfilled
AllFulfilled(ws) == \A w \in DOMAIN ws : ws[w].st = "returned"

\* lines 123-176 up to the first suspension of every worker
BatchUpdateStudentsClient(a) ==
    /\ phase = "idle"
    /\ args' = a
    /\ allowed' = Sanitize(a.updates)
    /\ IF NothingToSend(allowed')
       THEN /\ phase' = "rejected"
            /\ ret' = NoValidFieldsError
            /\ UNCHANGED <<ids, queue, results, done, workers, bulk, calls, progress>>
       ELSE /\ ids' = Dedupe(a.studentIds)
            /\ workers' = Spawn(WorkerCount(a.concurrency, Len(ids')), ids')
            /\ queue' = QueueAfterSpawn(WorkerCount(a.concurrency, Len(ids')), ids')
            /\ calls' = CallsOf(workers', allowed')
            /\ IF AllFulfilled(workers')
               THEN phase' = "resolved" /\ ret' = Obj(results)
               ELSE phase' = "running" /\ ret' = ret
            /\ UNCHANGED <<results, done, bulk, progress>>

\* a progress report made before the counter is incremented
TickBeforeIncrement(d, total) == [done |-> d - 1, total |-> total]

\* line 168: the argument of onProgress
Tick(d, total) == [done |-> d, total |-> total]

\* a catch clause that swallows the rejection without recording it
RecordSuccessOnly(res, id, o) ==
    IF o = Ok THEN [res EXCEPT !.success = Append(@, id)] ELSE res

\* lines 162-165: the outcome o of the call for id goes to success or failed
Record(res, id, o) ==
    IF o = Ok
    THEN [res EXCEPT !.success = Append(@, id)]
    ELSE [res EXCEPT !.failed = Append(@, [id |-> id, error |-> ErrorOf(o)])]

\* a worker that calls onProgress without testing that it was given
EscapesWithoutCallback(o, throws) == throws \/ args.onProgress = "absent"

\* a try statement without its catch clause
EscapesUncaught(o, throws) == throws \/ o # Ok

\* lines 161-169: whether an exception leaves the try statement; the catch
\* clause takes the rejection of the call, nothing takes a throwing onProgress
Escapes(o, throws) == throws

\* lines 163-170 and back to 159-162: the call of worker w settles with
\* outcome o; throws says whether this onProgress invocation throws
RunWorker(w, o, throws) ==
    /\ w \in InFlight
    /\ throws => args.onProgress = "mayThrow"
    /\ results' = Record(results, workers[w].id, o)
    /\ done' = done + 1
    /\ progress' = IF args.onProgress = "absent" THEN progress
                   ELSE Append(progress, Tick(done', Len(ids)))
    /\ IF Escapes(o, throws)
       THEN /\ workers' = [workers EXCEPT ![w] = Threw]
            /\ UNCHANGED <<queue, calls>>
            /\ IF phase = "running"
               THEN phase' = "rejected" /\ ret' = CallbackError
               ELSE UNCHANGED <<phase, ret>>
       ELSE /\ workers' = [workers EXCEPT ![w] = EnterLoop(queue)]
            /\ queue' = QueueAfterEnterLoop(queue)
            /\ calls' = IF queue # <<>>
                        THEN Append(calls, UpdateCall(Head(queue), allowed))
                        ELSE calls
            /\ IF phase = "running" /\ AllFulfilled(workers')
               THEN phase' = "resolved" /\ ret' = Obj(results')
               ELSE UNCHANGED <<phase, ret>>
    /\ UNCHANGED <<args, allowed, ids, bulk>>

\* a failure recorded for the first id only
FirstFailed(e) == <<[id |-> ids[1], error |-> e]>>

\* results.failed of the bulk variants: one entry per id, all with error e
AllFailed(e) == [i \in 1..Len(ids) |-> [id |-> ids[i], error |-> e]]

\* a bulk variant that goes on with an empty list
NoIdsIgnored(list) == FALSE

\* lines 189 and 227: ids.length === 0
NoIds(list) == list = <<>>

\* lines 182-192 and 219-231: dedupe, return at once when there is no id,
\* otherwise start the one bulk call
StartBulk(a, op) ==
    /\ phase = "idle"
    /\ args' = a
    /\ ids' = Dedupe(a.studentIds)
    /\ IF NoIds(ids')
       THEN /\ phase' = "resolved"
            /\ ret' = Obj(results)
            /\ UNCHANGED <<bulk, calls>>
       ELSE /\ phase' = "running"
            /\ bulk' = "pending"
            /\ calls' = <<[op |-> op, ids |-> ids']>>
            /\ ret' = ret
    /\ UNCHANGED <<allowed, queue, results, done, workers, progress>>

BatchDeleteStudentsClient(a) == StartBulk(a, "deleteStudentsBulk")

BatchRemoveStudentsFromClassClient(a) == StartBulk(a, "removeStudentsFromClass")

\* lines 193-201: the bulk delete call settles with o; throws1 and throws2
\* say whether the first and the second onProgress invocation throw
DeleteSettled(o, throws1, throws2) ==
    /\ args.fn = "delete"
    /\ bulk = "pending"
    /\ bulk' = IF o = Ok THEN "fulfilled" ELSE "rejected"
    /\ (throws1 \/ throws2) => args.onProgress = "mayThrow"
    /\ throws2 => (o = Ok /\ throws1)
    /\ LET tick == Tick(Len(ids), Len(ids))
           given == args.onProgress # "absent"
       IN  IF o = Ok
           THEN IF ~throws1
                THEN \* lines 193-197
                     /\ results' = [results EXCEPT !.success = ids]
                     /\ progress' = IF given THEN Append(progress, tick) ELSE progress
                     /\ phase' = "resolved"
                     /\ ret' = Obj(results')
                ELSE \* line 195 throws into the catch block, lines 198-201
                     /\ results' = [success |-> ids,
                                    failed |-> AllFailed(ErrorOf(CallbackError))]
                     /\ progress' = progress \o <<tick, tick>>
                     /\ IF throws2
                        THEN phase' = "rejected" /\ ret' = CallbackError
                        ELSE phase' = "resolved" /\ ret' = Obj(results')
           ELSE \* lines 198-201
                /\ results' = [results EXCEPT !.failed = AllFailed(ErrorOf(o))]
                /\ progress' = IF given THEN Append(progress, tick) ELSE progress
                /\ IF throws1
                   THEN phase' = "rejected" /\ ret' = CallbackError
                   ELSE phase' = "resolved" /\ ret' = Obj(results')
    /\ UNCHANGED <<args, allowed, ids, queue, done, workers, calls>>

\* a bulk remove without its catch clause
RemoveEscapesUncaught(o, throws) == throws \/ o # Ok

\* lines 229-237: whether an exception leaves batchRemoveStudentsFromClassClient;
\* the catch clause takes the rejection of the call, onProgress is outside it
RemoveEscapes(o, throws) == throws

\* lines 232-238: the bulk remove call settles with o
RemoveSettled(o, throws) ==
    /\ args.fn = "remove"
    /\ bulk = "pending"
    /\ bulk' = IF o = Ok THEN "fulfilled" ELSE "rejected"
    /\ throws => args.onProgress = "mayThrow"
    /\ results' = IF o = Ok
                  THEN [results EXCEPT !.success = ids]
                  ELSE [results EXCEPT !.failed = AllFailed(o)]
    /\ progress' = IF args.onProgress # "absent"
                   THEN Append(progress, Tick(Len(ids), Len(ids)))
                   ELSE progress
    /\ IF RemoveEscapes(o, throws)
       THEN phase' = "rejected" /\ ret' = CallbackError
       ELSE phase' = "resolved" /\ ret' = Obj(results')
    /\ UNCHANGED <<args, allowed, ids, queue, done, workers, calls>>

(***************************************************************************)
(* The same entry points as functions from the state of one invocation to  *)
(* its next state.  Every invocation has its own allowed, results, ids,    *)
(* done, queue and workers (lines 129, 152-158, 186-187, 224-225 are local *)
(* declarations), so the state of an invocation is a record of them.       *)
(***************************************************************************)
Invocation(p, a, al, d, q, res, n, ws, b, cs, pr, r) ==
    [phase |-> p, args |-> a, allowed |-> al, ids |-> d, queue |-> q, results |-> res,
     done |-> n, workers |-> ws, bulk |-> b, calls |-> cs, progress |-> pr, ret |-> r]

\* the invocation held by the variables phase, args, ..., ret
This ==
    Invocation(phase, args, allowed, ids, queue, results, done, workers, bulk, calls,
               progress, ret)

\* lines 123-176 up to the first suspension of every worker
UpdateInvoked(a) ==
    LET al == Sanitize(a.updates)
        d == Dedupe(a.studentIds)
        count == WorkerCount(a.concurrency, Len(d))
        ws == Spawn(count, d)
    IN  IF NothingToSend(al)
        THEN Invocation("rejected", a, al, <<>>, <<>>, EmptyResults, 0, <<>>, "none",
                        <<>>, <<>>, NoValidFieldsError)
        ELSE IF AllFulfilled(ws)
        THEN Invocation("resolved", a, al, d, QueueAfterSpawn(count, d), EmptyResults, 0,
                        ws, "none", CallsOf(ws, al), <<>>, Obj(EmptyResults))
        ELSE Invocation("running", a, al, d, QueueAfterSpawn(count, d), EmptyResults, 0,
                        ws, "none", CallsOf(ws, al), <<>>, Undefined)

\* lines 163-170 and back to 159-162 in invocation s: the call of worker w
\* settles with outcome o
WorkerSettled(s, w, o, throws) ==
    LET res == Record(s.results, s.workers[w].id, o)
        n == s.done + 1
        pr == IF s.args.onProgress = "absent" THEN s.progress
              ELSE Append(s.progress, Tick(n, Len(s.ids)))
        ws == [s.workers EXCEPT ![w] = EnterLoop(s.queue)]
    IN  IF Escapes(o, throws)
        THEN [s EXCEPT !.results = res, !.done = n, !.progress = pr,
                       !.workers = [s.workers EXCEPT ![w] = Threw],
                       !.phase = IF s.phase = "running" THEN "rejected" ELSE @,
                       !.ret = IF s.phase = "running" THEN CallbackError ELSE @]
        ELSE [s EXCEPT !.results = res, !.done = n, !.progress = pr,
                       !.workers = ws,
                       !.queue = QueueAfterEnterLoop(s.queue),
                       !.calls = IF s.queue # <<>>
                                 THEN Append(@, UpdateCall(Head(s.queue), s.allowed))
                                 ELSE @,
                       !.phase = IF s.phase = "running" /\ AllFulfilled(ws)
                                 THEN "resolved" ELSE @,
                       !.ret = IF s.phase = "running" /\ AllFulfilled(ws)
                               THEN Obj(res) ELSE @]

\* lines 182-192 and 219-231
BulkInvoked(a, op) ==
    LET d == Dedupe(a.studentIds)
    IN  IF NoIds(d)
        THEN Invocation("resolved", a, EmptyFields, d, <<>>, EmptyResults, 0, <<>>, "none",
                        <<>>, <<>>, Obj(EmptyResults))
        ELSE Invocation("running", a, EmptyFields, d, <<>>, EmptyResults, 0, <<>>,
                        "pending", <<[op |-> op, ids |-> d]>>, <<>>, Undefined)

\* lines 193-201 with an onProgress that is absent or returns
DeleteSettledQuietly(s, o) ==
    LET res == IF o = Ok
               THEN [s.results EXCEPT !.success = s.ids]
               ELSE [s.results EXCEPT
                        !.failed = [i \in 1..Len(s.ids) |->
                                       [id |-> s.ids[i], error |-> ErrorOf(o)]]]
    IN  [s EXCEPT !.bulk = IF o = Ok THEN "fulfilled" ELSE "rejected",
                  !.results = res,
                  !.progress = IF s.args.onProgress = "absent" THEN @
                               ELSE Append(@, Tick(Len(s.ids), Len(s.ids))),
                  !.phase = "resolved",
                  !.ret = Obj(res)]

\* lines 232-238 with an onProgress that is absent or returns
RemoveSettledQuietly(s, o) ==
    LET res == IF o = Ok
               THEN [s.results EXCEPT !.success = s.ids]
               ELSE [s.results EXCEPT
                        !.failed = [i \in 1..Len(s.ids) |-> [id |-> s.ids[i], error |-> o]]]
    IN  [s EXCEPT !.bulk = IF o = Ok THEN "fulfilled" ELSE "rejected",
                  !.results = res,
                  !.progress = IF s.args.onProgress = "absent" THEN @
                               ELSE Append(@, Tick(Len(s.ids), Len(s.ids))),
                  !.phase = IF RemoveEscapes(o, FALSE) THEN "rejected" ELSE "resolved",
                  !.ret = IF RemoveEscapes(o, FALSE) THEN CallbackError ELSE Obj(res)]

\* the calls of the three entry points
CallBatchUpdate ==
    /\ phase = "idle"
    /\ \E a \in UpdateArgs : BatchUpdateStudentsClient(a)
    /\ UNCHANGED <<other, norm, page, auth>>
CallBatchDelete ==
    /\ phase = "idle"
    /\ \E a \in BulkArgs : a.fn = "delete" /\ BatchDeleteStudentsClient(a)
    /\ UNCHANGED <<other, norm, page, auth>>
CallBatchRemove ==
    /\ phase = "idle"
    /\ \E a \in BulkArgs : a.fn = "remove" /\ BatchRemoveStudentsFromClassClient(a)
    /\ UNCHANGED <<other, norm, page, auth>>

\* a started network call settles and the code awaiting it goes on
UpdateStudentSettles ==
    /\ \E w \in InFlight, o \in Outcomes, throws \in BOOLEAN : RunWorker(w, o, throws)
    /\ UNCHANGED <<other, norm, page, auth>>
DeleteStudentsBulkSettles ==
    /\ bulk = "pending"
    /\ \E o \in Outcomes, throws1, throws2 \in BOOLEAN : DeleteSettled(o, throws1, throws2)
    /\ UNCHANGED <<other, norm, page, auth>>
RemoveStudentsFromClassSettles ==
    /\ bulk = "pending"
    /\ \E o \in Outcomes, throws \in BOOLEAN : RemoveSettled(o, throws)
    /\ UNCHANGED <<other, norm, page, auth>>

Settle ==
    UpdateStudentSettles \/ DeleteStudentsBulkSettles \/ RemoveStudentsFromClassSettles

Next ==
    \/ CallBatchUpdate
    \/ CallBatchDelete
    \/ CallBatchRemove
    \/ UpdateStudentSettles
    \/ DeleteStudentsBulkSettles
    \/ RemoveStudentsFromClassSettles

Spec == Init /\ [][Next]_vars

\* every started network call settles
FairSpec ==
    /\ Spec
    /\ WF_vars(Settle)

(***************************************************************************)
(* The list normalizers: getStudents and getClasses of the API layer, and  *)
(* the normalize...Resp functions of the pages.                            *)
(***************************************************************************)
\* Array.isArray(v)
IsArray(v) == v.t = "array"

\* services/api.js getStudents, applied to the body res.data
GetStudents(body) ==
    IF IsArray(OptGet(body, "data")) THEN OptGet(body, "data")
    ELSE IF IsArray(OptGet(body, "students")) THEN OptGet(body, "students")
    ELSE IF IsArray(OptGet(OptGet(body, "data"), "students"))
         THEN OptGet(OptGet(body, "data"), "students")
         ELSE Arr(<<>>)

\* services/api.js getClasses, applied to the body res.data
GetClasses(body) ==
    OrElse(OrElse(OrElse(OptGet(body, "data"), OptGet(body, "classes")),
                  OptGet(OptGet(body, "data"), "classes")),
           Arr(<<>>))

\* pages/ProfessorsPage.jsx normalizeStudentsResp
NormalizeStudentsResp(res) ==
    IF IsArray(res) THEN res
    ELSE IF IsArray(OptGet(OptGet(res, "data"), "data")) THEN OptGet(OptGet(res, "data"), "data")
    ELSE IF IsArray(OptGet(OptGet(res, "data"), "students"))
         THEN OptGet(OptGet(res, "data"), "students")
         ELSE Arr(<<>>)

\* normalizeClassesResp and normalizeProfessorsResp: the list itself,
\* res.data.<entity> or res.data
NormalizeResp(res, entity) ==
    IF IsArray(res) THEN res
    ELSE IF IsArray(OptGet(OptGet(res, "data"), entity))
         THEN OptGet(OptGet(res, "data"), entity)
    ELSE IF IsArray(OptGet(res, "data")) THEN OptGet(res, "data")
         ELSE Arr(<<>>)

NormalizeClassesResp(res) == NormalizeResp(res, "classes")

NormalizeProfessorsResp(res) == NormalizeResp(res, "professors")

\* [1,2,3] and a second list to tell the candidates apart
List123 == Arr(<<Num(1), Num(2), Num(3)>>)
List45 == Arr(<<Num(4), Num(5)>>)
\* values of a field that is no list: null, 0, "", a non-empty string
Scalars == {Null, Num(0), Str(<<>>), Str(<<"x">>)}
EntityNames == {"students", "classes", "professors"}
\* what the data field of a body can hold
DataInputs ==
    Scalars \cup {Arr(<<>>), List123, Obj(EmptyFields)}
    \cup {Obj([k \in {e} |-> v]) : e \in EntityNames, v \in {List123, Str(<<"x">>)}}
\* response bodies
Bodies ==
    Scalars \cup {Undefined, Arr(<<>>), List123}
    \cup {Obj(Restrict(f, keys)) :
            f \in [data : DataInputs, students : {List123, List45, Str(<<"x">>)},
                   classes : {List45, Str(<<"x">>)}, professors : {List45}],
            keys \in SUBSET {"data", "students", "classes", "professors"}}
\* the axios response with body b
Response(b) == Obj([data |-> b])

Normalized(fn, input, out) == [fn |-> fn, body |-> input, out |-> out]

\* getStudents() resolves for a response with body b
GetStudentsReturns ==
    /\ norm.fn = "none"
    /\ \E b \in Bodies : norm' = Normalized("getStudents", b, GetStudents(b))
    /\ UNCHANGED <<phase, args, allowed, ids, queue, results, done, workers, bulk, calls,
                   progress, ret, other, page, auth>>

\* getClasses() resolves for a response with body b
GetClassesReturns ==
    /\ norm.fn = "none"
    /\ \E b \in Bodies : norm' = Normalized("getClasses", b, GetClasses(b))
    /\ UNCHANGED <<phase, args, allowed, ids, queue, results, done, workers, bulk, calls,
                   progress, ret, other, page, auth>>

\* ProfessorsPage fetchStudents: normalizeStudentsResp(await getStudents())
FetchStudents ==
    /\ norm.fn = "none"
    /\ \E b \in Bodies :
          norm' = Normalized("fetchStudents", b, NormalizeStudentsResp(GetStudents(b)))
    /\ UNCHANGED <<phase, args, allowed, ids, queue, results, done, workers, bulk, calls,
                   progress, ret, other, page, auth>>

\* fetchClasses: normalizeClassesResp(await getClasses())
FetchClasses ==
    /\ norm.fn = "none"
    /\ \E b \in Bodies :
          norm' = Normalized("fetchClasses", b, NormalizeClassesResp(GetClasses(b)))
    /\ UNCHANGED <<phase, args, allowed, ids, queue, results, done, workers, bulk, calls,
                   progress, ret, other, page, auth>>

\* fetchProfessors: normalizeProfessorsResp(await getProfessors()), the
\* whole axios response
FetchProfessors ==
    /\ norm.fn = "none"
    /\ \E b \in Bodies :
          norm' = Normalized("fetchProfessors", b, NormalizeProfessorsResp(Response(b)))
    /\ UNCHANGED <<phase, args, allowed, ids, queue, results, done, workers, bulk, calls,
                   progress, ret, other, page, auth>>

\* the page normalizers applied to a list, a body or an axios response
NormalizeStudentsRespReturns ==
    /\ norm.fn = "none"
    /\ \E b \in Bodies : \E r \in {b, Response(b)} :
          norm' = Normalized("normalizeStudentsResp", r, NormalizeStudentsResp(r))
    /\ UNCHANGED <<phase, args, allowed, ids, queue, results, done, workers, bulk, calls,
                   progress, ret, other, page, auth>>

NormalizeClassesRespReturns ==
    /\ norm.fn = "none"
    /\ \E b \in Bodies : \E r \in {b, Response(b)} :
          norm' = Normalized("normalizeClassesResp", r, NormalizeClassesResp(r))
    /\ UNCHANGED <<phase, args, allowed, ids, queue, results, done, workers, bulk, calls,
                   progress, ret, other, page, auth>>

\* what a property access on null or undefined raises
TypeError == [t |-> "TypeError"]
\* v is null or undefined
Nullish(v) == v.t \in {"undefined", "null"}

\* services/api.js getStudentById and updateStudent, applied to the body:
\* res.data.data?.student || res.data.student
GetStudentById(body) ==
    IF Nullish(body) THEN TypeError
    ELSE OrElse(OptGet(OptGet(body, "data"), "student"), OptGet(body, "student"))

UpdateStudent(body) == GetStudentById(body)

\* services/api.js deleteStudent: res.data.data?.message || res.data.message
DeleteStudent(body) ==
    IF Nullish(body) THEN TypeError
    ELSE OrElse(OptGet(OptGet(body, "data"), "message"), OptGet(body, "message"))

\* services/api.js deleteStudentsBulk: res.data.data || res.data
DeleteStudentsBulk(body) ==
    IF Nullish(body) THEN TypeError
    ELSE OrElse(OptGet(body, "data"), body)

\* a student record and a server message
Student7 == Obj([name |-> Str(<<"s">>)])
Deleted == Str(<<"o", "k">>)
\* bodies of the single-entity endpoints
EntityBodies ==
    Scalars \cup {Undefined, Obj(EmptyFields), List123}
    \cup {Obj(Restrict(f, keys)) :
            f \in [data : {Null, Str(<<"x">>), Obj(EmptyFields), Obj([student |-> Student7]),
                           Obj([message |-> Deleted])},
                   student : {Student7, Null}, message : {Deleted, Str(<<>>)}],
            keys \in SUBSET {"data", "student", "message"}}

GetStudentByIdReturns ==
    /\ norm.fn = "none"
    /\ \E b \in EntityBodies : norm' = Normalized("getStudentById", b, GetStudentById(b))
    /\ UNCHANGED <<phase, args, allowed, ids, queue, results, done, workers, bulk, calls,
                   progress, ret, other, page, auth>>

UpdateStudentReturns ==
    /\ norm.fn = "none"
    /\ \E b \in EntityBodies : norm' = Normalized("updateStudent", b, UpdateStudent(b))
    /\ UNCHANGED <<phase, args, allowed, ids, queue, results, done, workers, bulk, calls,
                   progress, ret, other, page, auth>>

DeleteStudentReturns ==
    /\ norm.fn = "none"
    /\ \E b \in EntityBodies : norm' = Normalized("deleteStudent", b, DeleteStudent(b))
    /\ UNCHANGED <<phase, args, allowed, ids, queue, results, done, workers, bulk, calls,
                   progress, ret, other, page, auth>>

DeleteStudentsBulkReturns ==
    /\ norm.fn = "none"
    /\ \E b \in EntityBodies :
          norm' = Normalized("deleteStudentsBulk", b, DeleteStudentsBulk(b))
    /\ UNCHANGED <<phase, args, allowed, ids, queue, results, done, workers, bulk, calls,
                   progress, ret, other, page, auth>>

NormNext ==
    \/ GetStudentsReturns
    \/ GetClassesReturns
    \/ FetchStudents
    \/ FetchClasses
    \/ FetchProfessors
    \/ NormalizeStudentsRespReturns
    \/ NormalizeClassesRespReturns
    \/ GetStudentByIdReturns
    \/ UpdateStudentReturns
    \/ DeleteStudentReturns
    \/ DeleteStudentsBulkReturns

NormSpec == Init /\ [][NormNext]_vars

(***************************************************************************)
(* Two batchUpdateStudentsClient invocations in the same event loop: the   *)
(* first is held by the variables, the second by the record other.  The    *)
(* settling of a call of either invocation is one step.                    *)
(***************************************************************************)
FirstArgs ==
    [fn : {"update"},
     studentIds : {Arr(<<Str(<<"a">>), Str(<<"b">>)>>),
                   Arr(<<Str(<<"a">>), Num(1), Str(<<"a">>), Str(<<"b">>)>>)},
     updates : {FullUpdate}, concurrency : {Num(1), Num(2)}, onProgress : {"returns"}]
SecondArgs ==
    [fn : {"update"},
     studentIds : {Arr(<<Str(<<"b">>)>>), Arr(<<Str(<<"b">>), Str(<<"c">>)>>)},
     updates : {Obj([division |-> Str(<<"B">>)])},
     concurrency : {Num(1), Undefined}, onProgress : {"returns"}]

\* the workers of invocation s that await a call
InFlightOf(s) == {w \in DOMAIN s.workers : s.workers[w].st = "await"}

\* an invocation whose worker reads the done counter of another invocation
DoneOfOther(s, elsewhere) == [s EXCEPT !.done = elsewhere.done]

\* lines 152-157: results, ids, done and queue are declared inside the
\* function, so a worker of invocation s works on those of s whatever
\* another invocation holds
OwnState(s, elsewhere) == s

FirstCalled ==
    /\ phase = "idle"
    /\ \E a \in FirstArgs : BatchUpdateStudentsClient(a)
    /\ UNCHANGED <<other, norm, page, auth>>

SecondCalled ==
    /\ other.phase = "idle"
    /\ \E a \in SecondArgs : other' = UpdateInvoked(a)
    /\ UNCHANGED <<phase, args, allowed, ids, queue, results, done, workers, bulk, calls,
                   progress, ret, norm, page, auth>>

FirstSettles ==
    /\ \E w \in InFlight, o \in {Ok, HttpError} : RunWorker(w, o, FALSE)
    /\ UNCHANGED <<other, norm, page, auth>>

SecondSettles ==
    /\ other.phase # "idle"
    /\ \E w \in InFlightOf(other), o \in {Ok, NetworkError} :
          other' = WorkerSettled(OwnState(other, This), w, o, FALSE)
    /\ UNCHANGED <<phase, args, allowed, ids, queue, results, done, workers, bulk, calls,
                   progress, ret, norm, page, auth>>

TwoNext ==
    \/ FirstCalled
    \/ SecondCalled
    \/ FirstSettles
    \/ SecondSettles

TwoSpec == Init /\ [][TwoNext]_vars

(***************************************************************************)
(* A batch without onProgress next to the same batch with a callback that  *)
(* returns: the variables hold the first, the record other the second, and *)
(* every network call settles the same way in both.                        *)
(***************************************************************************)
\* the calls without onProgress; concurrency undefined is also the call
\* without the options argument
WithoutCallback == {a \in UpdateArgs \cup BulkArgs : a.onProgress = "absent"}
WithCallback(a) == [a EXCEPT !.onProgress = "returns"]

TwinCallBatchUpdate ==
    /\ phase = "idle"
    /\ \E a \in WithoutCallback :
          /\ a.fn = "update"
          /\ BatchUpdateStudentsClient(a)
          /\ other' = UpdateInvoked(WithCallback(a))
    /\ UNCHANGED <<norm, page, auth>>

TwinCallBatchDelete ==
    /\ phase = "idle"
    /\ \E a \in WithoutCallback :
          /\ a.fn = "delete"
          /\ BatchDeleteStudentsClient(a)
          /\ other' = BulkInvoked(WithCallback(a), "deleteStudentsBulk")
    /\ UNCHANGED <<norm, page, auth>>

TwinCallBatchRemove ==
    /\ phase = "idle"
    /\ \E a \in WithoutCallback :
          /\ a.fn = "remove"
          /\ BatchRemoveStudentsFromClassClient(a)
          /\ other' = BulkInvoked(WithCallback(a), "removeStudentsFromClass")
    /\ UNCHANGED <<norm, page, auth>>

TwinUpdateStudentSettles ==
    /\ \E w \in InFlight, o \in Outcomes :
          /\ RunWorker(w, o, FALSE)
          /\ other' = WorkerSettled(other, w, o, FALSE)
    /\ UNCHANGED <<norm, page, auth>>

TwinDeleteStudentsBulkSettles ==
    /\ bulk = "pending"
    /\ \E o \in Outcomes :
          /\ DeleteSettled(o, FALSE, FALSE)
          /\ other' = DeleteSettledQuietly(other, o)
    /\ UNCHANGED <<norm, page, auth>>

TwinRemoveStudentsFromClassSettles ==
    /\ bulk = "pending"
    /\ \E o \in Outcomes :
          /\ RemoveSettled(o, FALSE)
          /\ other' = RemoveSettledQuietly(other, o)
    /\ UNCHANGED <<norm, page, auth>>

TwinNext ==
    \/ TwinCallBatchUpdate
    \/ TwinCallBatchDelete
    \/ TwinCallBatchRemove
    \/ TwinUpdateStudentSettles
    \/ TwinDeleteStudentsBulkSettles
    \/ TwinRemoveStudentsFromClassSettles

TwinSpec == Init /\ [][TwinNext]_vars

(***************************************************************************)
(* StudentPage (part_000 lines 476-1166): the selection, the two batch     *)
(* handlers and the single delete.  The batch a handler awaits is held as  *)
(* an invocation record; selectedIds holds String(s._id) values.           *)
(***************************************************************************)
\* handlers awaiting a confirm dialog or a batch at the same time
MaxHandlers == 1
\* getStudents calls in flight at the same time
MaxFetching == 1

notPage ==
    <<phase, args, allowed, ids, queue, results, done, workers, bulk, calls, progress,
      ret, other, norm, auth>>

\* the ids of the students on the page
PageStudentIds == {<<"a">>, <<"b">>}
\* visibleIds: the ids of the filtered students, in display order
VisibleInputs == {<<>>, <<<<"a">>>>, <<<<"b">>, <<"a">>>>, <<<<"b">>, <<"b">>>>}
\* what BatchUpdateModal can submit
PageUpdates == {Obj([division |-> Str(<<"A">>)]), Obj([semester |-> Str(<<"x">>)])}

\* list.includes(x)
Includes(list, x) == \E i \in DOMAIN list : list[i] = x

\* line 1018: prev.includes(sid) ? prev.filter((id) => id !== sid) : [...prev, sid]
CheckboxChanged(prev, sid) ==
    IF Includes(prev, sid) THEN SelectSeq(prev, LAMBDA id : id # sid) ELSE Append(prev, sid)

\* a selection that appends the visible ids as they are
AddVisibleRepeated(prev, visibleIds) == prev \o visibleIds

\* lines 790, 796: Array.from(new Set([...prev, ...visibleIds]))
AddVisible(prev, visibleIds) == Unique(prev \o visibleIds, {})

\* line 787: prev.filter((id) => !visibleIds.includes(id))
RemoveVisible(prev, visibleIds) == SelectSeq(prev, LAMBDA id : ~Includes(visibleIds, id))

\* lines 779-782
AreAllVisibleSelected(visibleIds, selectedIds) ==
    /\ visibleIds # <<>>
    /\ \A i \in DOMAIN visibleIds : Includes(selectedIds, visibleIds[i])

\* toast.success / toast.warn / toast.error of the batch handlers
Toast(kind, about, success, failed) ==
    [kind |-> kind, about |-> about, success |-> success, failed |-> failed]

\* lines 517-527 up to the await: fetchStudents()
FetchStudentsCalled(p) == [p EXCEPT !.fetching = @ + 1]

\* lines 674 and 719: concurrency: 5
PageConcurrency == 5

\* lines 673-676 and 718-721: the arguments the handlers pass: the
\* selection, the concurrency and setProgress as onProgress
PageArgs(fn, selected, updates) ==
    [fn |-> fn, studentIds |-> Arr([i \in DOMAIN selected |-> Str(selected[i])]),
     updates |-> updates, concurrency |-> Num(PageConcurrency), onProgress |-> "returns"]

\* lines 668-670 and 713-715: before the batch call
BatchAnnounced(p, selected) ==
    [p EXCEPT !.progress = [done |-> 0, total |-> Len(selected)],
              !.progressOpen = TRUE,
              !.batchUpdating = TRUE]

\* a notice that reports success whenever something succeeded
NoticeOfSuccess(about, res) ==
    IF Len(res.success) > 0
    THEN Toast("success", about, Len(res.success), 0)
    ELSE Toast("warn", about, Len(res.success), Len(res.failed))

\* lines 678-683 and 723-728: the notification for a resolved batch
Notice(about, res) ==
    IF Len(res.failed) = 0
    THEN Toast("success", about, Len(res.success), 0)
    ELSE Toast("warn", about, Len(res.success), Len(res.failed))

\* a handler without its finally clause
StillUpdating(p) == p

\* lines 691-694 and 736-738: finally { setBatchUpdating(false) }
Finally(p) == [p EXCEPT !.batchUpdating = FALSE]

\* a catch block that also drops the selection
CaughtAndCleared(p, about) ==
    [p EXCEPT !.toast = Toast("error", about, 0, 0), !.selectedIds = <<>>]

\* lines 688-690 and 733-735: catch (err) { toast.error(...) }
Caught(p, about) == [p EXCEPT !.toast = Toast("error", about, 0, 0)]

\* lines 678-694: handleApplyBatch after its await, for the settled batch b
ApplyBatchSettled(p, b) ==
    IF b.phase = "resolved"
    THEN Finally([FetchStudentsCalled(p) EXCEPT
                     !.toast = Notice("update", b.ret.f),
                     !.batchModalOpen = FALSE,
                     !.selectedIds = <<>>,
                     !.showSelection = FALSE])
    ELSE Finally(Caught(p, "update"))

\* lines 723-738: handleBatchDelete after its await
BatchDeleteSettled(p, b) ==
    IF b.phase = "resolved"
    THEN Finally([FetchStudentsCalled(p) EXCEPT
                     !.toast = Notice("delete", b.ret.f),
                     !.selectedIds = <<>>,
                     !.showSelection = FALSE])
    ELSE Finally(Caught(p, "delete"))

\* lines 662-676: handleApplyBatch(updates) on page p, up to its await, and
\* past it when batchUpdateStudentsClient is settled at once
ApplyBatchCalled(p, updates) ==
    IF p.selectedIds = <<>>
    THEN [p EXCEPT !.toast = Toast("error", "none selected", 0, 0)]
    ELSE LET b == UpdateInvoked(PageArgs("update", p.selectedIds, updates))
             q == BatchAnnounced(p, p.selectedIds)
         IN  IF b.phase = "running"
             THEN [q EXCEPT !.handlers = Append(@, [kind |-> "update", st |-> "batch",
                                                    batch |-> b])]
             ELSE ApplyBatchSettled(q, b)

\* the handlers without the one at position h
WithoutHandler(hs, h) == SubSeq(hs, 1, h - 1) \o SubSeq(hs, h + 1, Len(hs))

\* the last onProgress call of batch b went to setProgress
ProgressShown(p, b) ==
    IF b.progress = <<>> THEN p ELSE [p EXCEPT !.progress = b.progress[Len(b.progress)]]

\* lines 529-531: the effect of the first render
PageMounted ==
    /\ ~page.mounted
    /\ page' = [FetchStudentsCalled(page) EXCEPT !.mounted = TRUE]
    /\ UNCHANGED notPage

\* lines 520-526: getStudents settles, fulfilled or rejected
GetStudentsSettles ==
    /\ page.fetching > 0
    /\ page' = [page EXCEPT !.fetching = @ - 1]
    /\ UNCHANGED notPage

\* lines 1014-1021: the checkbox of a card
CheckboxToggled ==
    /\ page.mounted /\ page.showSelection
    /\ \E sid \in PageStudentIds :
          page' = [page EXCEPT !.selectedIds = CheckboxChanged(@, sid)]
    /\ UNCHANGED notPage

\* lines 784-793
ToggleSelectVisible ==
    /\ page.mounted
    /\ \E visibleIds \in VisibleInputs :
          IF AreAllVisibleSelected(visibleIds, page.selectedIds)
          THEN page' = [page EXCEPT !.selectedIds = RemoveVisible(@, visibleIds)]
          ELSE page' = [page EXCEPT !.selectedIds = AddVisible(@, visibleIds),
                                    !.showSelection = TRUE]
    /\ UNCHANGED notPage

\* lines 795-798
SelectAllVisible ==
    /\ page.mounted
    /\ \E visibleIds \in VisibleInputs :
          page' = [page EXCEPT !.selectedIds = AddVisible(@, visibleIds),
                               !.showSelection = TRUE]
    /\ UNCHANGED notPage

\* lines 800-803
ClearSelection ==
    /\ page.mounted
    /\ page' = [page EXCEPT !.selectedIds = <<>>, !.showSelection = FALSE]
    /\ UNCHANGED notPage

\* lines 875-877 and 1153: the Batch Update button (disabled without a
\* selection or while batchUpdating) and the modal's onClose
BatchModalToggled ==
    /\ page.mounted
    /\ \/ /\ page.selectedIds # <<>> /\ ~page.batchUpdating
          /\ page' = [page EXCEPT !.batchModalOpen = TRUE]
       \/ /\ page.batchModalOpen
          /\ page' = [page EXCEPT !.batchModalOpen = FALSE]
    /\ UNCHANGED notPage

\* line 1161: onClose of BatchProgress
ProgressClosed ==
    /\ page.mounted /\ page.progressOpen
    /\ page' = [page EXCEPT !.progressOpen = FALSE]
    /\ UNCHANGED notPage

\* line 1154: the modal submits, onSubmit={handleApplyBatch}
HandleApplyBatch ==
    /\ page.mounted /\ page.batchModalOpen
    /\ Len(page.handlers) < MaxHandlers
    /\ \E updates \in PageUpdates :
          LET q == ApplyBatchCalled(page, updates)
          IN  q.fetching <= MaxFetching /\ page' = q
    /\ UNCHANGED notPage

\* lines 698-710: the Batch Delete button (disabled without a selection or
\* while batchUpdating); handleBatchDelete up to the confirm dialog
HandleBatchDelete ==
    /\ page.mounted
    /\ page.selectedIds # <<>> /\ ~page.batchUpdating
    /\ Len(page.handlers) < MaxHandlers
    /\ page' = [page EXCEPT !.handlers =
                               Append(@, [kind |-> "delete", st |-> "confirm",
                                          batch |-> NoInvocation,
                                          selectedIds |-> page.selectedIds])]
    /\ UNCHANGED notPage

\* lines 711-721: the confirm dialog of handler h of page p is answered; on
\* ok handleBatchDelete goes on to its batch call, with the selectedIds of
\* the render it was called in
BatchDeleteConfirmed(p, h, ok) ==
    IF ~ok
    THEN [p EXCEPT !.handlers = WithoutHandler(@, h)]
    ELSE LET selected == p.handlers[h].selectedIds
             b == BulkInvoked(PageArgs("delete", selected, Undefined), "deleteStudentsBulk")
         IN  [BatchAnnounced(p, selected) EXCEPT
                 !.handlers[h] = [kind |-> "delete", st |-> "batch", batch |-> b]]

ConfirmAnswered ==
    /\ \E h \in DOMAIN page.handlers, ok \in BOOLEAN :
          /\ page.handlers[h].st = "confirm"
          /\ page' = BatchDeleteConfirmed(page, h, ok)
    /\ UNCHANGED notPage

\* lines 673-694: the updateStudent call of worker w of the batch that
\* handler h of page p awaits settles with outcome o: the worker goes on,
\* setProgress is called, and when the batch is resolved the handler goes on
\* after its await
UpdateStudentSettled(p, h, w, o) ==
    LET b == WorkerSettled(p.handlers[h].batch, w, o, FALSE)
        q == ProgressShown(p, b)
    IN  IF b.phase = "running"
        THEN [q EXCEPT !.handlers[h].batch = b]
        ELSE ApplyBatchSettled([q EXCEPT !.handlers = WithoutHandler(@, h)], b)

\* lines 718-738: the deleteStudentsBulk call of the batch that handler h
\* of page p awaits settles with outcome o
DeleteStudentsBulkSettled(p, h, o) ==
    LET b == DeleteSettledQuietly(p.handlers[h].batch, o)
        q == ProgressShown(p, b)
    IN  BatchDeleteSettled([q EXCEPT !.handlers = WithoutHandler(@, h)], b)

PageUpdateStudentSettles ==
    /\ \E h \in DOMAIN page.handlers :
          /\ page.handlers[h].kind = "update"
          /\ \E w \in InFlightOf(page.handlers[h].batch), o \in {Ok, HttpError} :
                LET q == UpdateStudentSettled(page, h, w, o)
                IN  q.fetching <= MaxFetching /\ page' = q
    /\ UNCHANGED notPage

PageDeleteStudentsBulkSettles ==
    /\ page.fetching < MaxFetching
    /\ \E h \in DOMAIN page.handlers :
          /\ page.handlers[h].kind = "delete" /\ page.handlers[h].st = "batch"
          /\ \E o \in {Ok, NetworkError} :
                page' = DeleteStudentsBulkSettled(page, h, o)
    /\ UNCHANGED notPage

\* lines 606-633: handleDelete after its confirm dialog and its
\* deleteStudent call
HandleDeleteSettles ==
    /\ page.mounted
    /\ \E id \in PageStudentIds, o \in {Ok, HttpError} :
          IF o = Ok
          THEN /\ page.fetching < MaxFetching
               /\ page' = [FetchStudentsCalled(page) EXCEPT
                              !.selectedIds = SelectSeq(@, LAMBDA x : x # id)]
          ELSE page' = page
    /\ UNCHANGED notPage

\* lines 533-554: handleAddStudent after its addStudent call
HandleAddStudentSettles ==
    /\ page.mounted
    /\ \E o \in {Ok, HttpError} :
          IF o = Ok
          THEN page.fetching < MaxFetching /\ page' = FetchStudentsCalled(page)
          ELSE page' = page
    /\ UNCHANGED notPage

\* lines 579-603: handleUpdate after its updateStudent call
HandleUpdateSettles ==
    /\ page.mounted
    /\ \E o \in {Ok, HttpError} :
          IF o = Ok
          THEN page.fetching < MaxFetching /\ page' = FetchStudentsCalled(page)
          ELSE page' = page
    /\ UNCHANGED notPage

\* lines 636-659: handleBulkUpload after its bulkUploadStudents call
HandleBulkUploadSettles ==
    /\ page.mounted
    /\ \E o \in {Ok, HttpError} :
          IF o = Ok
          THEN page.fetching < MaxFetching /\ page' = FetchStudentsCalled(page)
          ELSE page' = page
    /\ UNCHANGED notPage

PageNext ==
    \/ PageMounted
    \/ GetStudentsSettles
    \/ CheckboxToggled
    \/ ToggleSelectVisible
    \/ SelectAllVisible
    \/ ClearSelection
    \/ BatchModalToggled
    \/ ProgressClosed
    \/ HandleApplyBatch
    \/ HandleBatchDelete
    \/ ConfirmAnswered
    \/ PageUpdateStudentSettles
    \/ PageDeleteStudentsBulkSettles
    \/ HandleDeleteSettles
    \/ HandleAddStudentSettles
    \/ HandleUpdateSettles
    \/ HandleBulkUploadSettles

PageSpec == Init /\ [][PageNext]_vars

(***************************************************************************)
(* AuthProvider (part_001): lines 15-153 (variant 1) and lines 175-285     *)
(* (variant 2).  The handlers only call the setters; the render that a     *)
(* changed token causes is a later step, and the effect of that render,    *)
(* with the token of that render, a step after it.                         *)
(***************************************************************************)
\* getHodProfile calls in flight at the same time
MaxRequests == 2
\* loginHod calls in flight at the same time
MaxLogins == 1

notAuth ==
    <<phase, args, allowed, ids, queue, results, done, workers, bulk, calls, progress,
      ret, other, norm, page>>

\* the tokens the server issues
Token1 == Str(<<"1">>)
Token2 == Str(<<"2">>)
\* a HOD as the server sends it
HodData == Obj([username |-> Str(<<"h">>)])
\* res.data of getHodProfile
ProfileBodies == {Obj([hod |-> HodData]), HodData, Obj(EmptyFields)}
\* res.data of loginHod
LoginBodies ==
    {Obj([token |-> Token1, hod |-> HodData]),
     Obj([data |-> Obj([token |-> Token2])]),
     Obj([message |-> Str(<<"x">>)])}

\* lines 40-46 (profile.id || profile._id) and lines 183-189 (profile._id ||
\* profile.id): { id, username, collegeName, email, ...profile }
Normalized1(variant, profile) ==
    LET id == IF variant = 1
              THEN OrElse(OptGet(profile, "id"), OptGet(profile, "_id"))
              ELSE OrElse(OptGet(profile, "_id"), OptGet(profile, "id"))
    IN  Obj([k \in {"id", "username", "collegeName", "email"} \union DOMAIN profile.f |->
                IF k \in DOMAIN profile.f THEN profile.f[k]
                ELSE IF k = "id" THEN id ELSE Undefined])

\* lines 181-190: normalizeProfile
NormalizeProfile(variant, profile) ==
    IF ~Truthy(profile) THEN Null ELSE Normalized1(variant, profile)

\* lines 31-36 and 88-93 (variant 1), lines 202-203 and 240-241 (variant 2):
\* the profile found in res.data
ProfileIn(variant, body) ==
    LET data == OrElse(body, Obj(EmptyFields))
        inner == OptGet(data, "data")
    IN  IF variant = 1
        THEN IF Truthy(inner) /\ Truthy(OptGet(inner, "hod")) THEN OptGet(inner, "hod")
             ELSE IF Truthy(OptGet(data, "hod")) THEN OptGet(data, "hod")
             ELSE IF Truthy(inner) /\ Truthy(OrElse(OptGet(inner, "username"),
                                                    OptGet(inner, "collegeName")))
                  THEN inner
             ELSE IF Truthy(OrElse(OptGet(data, "username"), OptGet(data, "collegeName")))
                  THEN data
             ELSE Null
        ELSE OrElse(OrElse(OptGet(data, "hod"), OptGet(inner, "hod")), data)

\* lines 79 and 231: res?.data?.token || res?.data?.data?.token || null
TokenIn(body) ==
    OrElse(OrElse(OptGet(body, "token"), OptGet(OptGet(body, "data"), "token")), Null)

\* lines 21-29 and 193-201: fetchProfile() of a render with that token, in
\* state a, up to its await; overtaken: a login or setAuth installed a
\* token since the call started
FetchProfile(a, token) ==
    IF ~Truthy(token)
    THEN [a EXCEPT !.hod = Null, !.loading = FALSE]
    ELSE [a EXCEPT !.loading = TRUE,
                   !.requests = Append(@, [token |-> token, overtaken |-> FALSE])]

\* lines 63-72 and 217-225: the effect on [token] of a render with that
\* token, in state a
TokenEffect(a, token) ==
    IF a.variant = 1
    THEN FetchProfile([a EXCEPT !.stored = IF Truthy(token) THEN token ELSE Null], token)
    ELSE IF Truthy(token)
         THEN FetchProfile([a EXCEPT !.stored = token], token)
         ELSE [a EXCEPT !.stored = Null]

\* the getHodProfile calls in flight when a login or setAuth installs a
\* token
Overtaken(requests) == [i \in DOMAIN requests |-> [requests[i] EXCEPT !.overtaken = TRUE]]

\* deps of the effect before it has run once
Unrendered == [t |-> "unrendered"]

\* lines 16-18 and 176-178: the state of the first render, for the hodToken
\* that localStorage holds; rendered is the token of the last render, deps
\* the token the effect ran for last
FirstRender(variant, hodToken) ==
    [variant |-> variant, hod |-> Null, token |-> OrElse(hodToken, Null),
     stored |-> hodToken, loading |-> Truthy(hodToken), requests |-> <<>>,
     logins |-> 0, notice |-> "none", loggedOut |-> FALSE,
     rendered |-> OrElse(hodToken, Null), deps |-> Unrendered]

\* lines 63-72 and 217-225: the effect of the last render runs, with the
\* token of that render
EffectOfRender(a) == TokenEffect([a EXCEPT !.deps = a.rendered], a.rendered)

\* toast of variant 2 (variant 1 has none)
Notified(a, text) == IF a.variant = 2 THEN [a EXCEPT !.notice = text] ELSE a

\* lines 29-59 and 201-213: fetchProfile after its await, for request i and
\* what getHodProfile settled with
ProfileSettled(a, i, o) ==
    LET rest == [a EXCEPT !.requests = SubSeq(@, 1, i - 1) \o SubSeq(@, i + 1, Len(@))]
    IN  IF o = HttpError
        THEN [Notified(rest, "session expired") EXCEPT
                 !.stored = Null, !.token = Null, !.hod = Null, !.loading = FALSE]
        ELSE LET profile == ProfileIn(a.variant, o)
             IN  [rest EXCEPT !.hod = IF a.variant = 1 /\ ~Truthy(profile) THEN Null
                                      ELSE NormalizeProfile(a.variant, profile),
                              !.loading = FALSE]

\* lines 77-120 and 230-257: login after its await
LoginSettled(a, o) ==
    LET rest == [a EXCEPT !.logins = @ - 1]
        failed == IF a.variant = 1 THEN [rest EXCEPT !.notice = "alert"]
                  ELSE [rest EXCEPT !.notice = "login failed"]
    IN  IF o = HttpError \/ ~Truthy(TokenIn(o)) THEN failed
        ELSE LET profile == ProfileIn(a.variant, o)
             IN  [Notified(rest, "login successful") EXCEPT
                     !.token = TokenIn(o),
                     !.requests = Overtaken(@),
                     !.hod = IF Truthy(profile)
                             THEN Normalized1(a.variant, profile) ELSE @,
                     !.loggedOut = FALSE]

\* lines 123-127 and 260-265: logout
LoggedOut(a) ==
    [Notified(a, "logged out") EXCEPT
        !.hod = Null, !.token = Null, !.stored = Null, !.loggedOut = TRUE]

\* lines 130-145 and 268-278: setAuth
AuthSet(a, hodData, tokenFromServer) ==
    IF ~Truthy(tokenFromServer) THEN a
    ELSE [Notified(a, "authentication updated") EXCEPT
             !.token = tokenFromServer,
             !.requests = Overtaken(@),
             !.stored = tokenFromServer,
             !.hod = IF Truthy(hodData) THEN Normalized1(a.variant, hodData) ELSE @,
             !.loggedOut = FALSE]

\* the provider is rendered for the first time
AuthMounted ==
    /\ auth = NoAuthProvider
    /\ \E variant \in {1, 2}, hodToken \in {Null, Token1} :
          auth' = FirstRender(variant, hodToken)
    /\ UNCHANGED notAuth

\* the provider is rendered with a token other than the one of the render
\* before, whose effect has run
Renders ==
    /\ auth.variant # 0
    /\ auth.deps = auth.rendered
    /\ auth.token # auth.rendered
    /\ auth' = [auth EXCEPT !.rendered = auth.token]
    /\ UNCHANGED notAuth

\* the effect of the last render (the first one, or one with another token
\* than the render before) runs
EffectRuns ==
    /\ auth.variant # 0
    /\ auth.deps # auth.rendered
    /\ Len(EffectOfRender(auth).requests) <= MaxRequests
    /\ auth' = EffectOfRender(auth)
    /\ UNCHANGED notAuth

GetHodProfileSettles ==
    /\ auth.variant # 0
    /\ \E i \in DOMAIN auth.requests, o \in ProfileBodies \union {HttpError} :
          auth' = ProfileSettled(auth, i, o)
    /\ UNCHANGED notAuth

\* lines 75-77 and 228-230: login up to its await
Login ==
    /\ auth.variant # 0
    /\ auth.logins < MaxLogins
    /\ auth' = [auth EXCEPT !.logins = @ + 1]
    /\ UNCHANGED notAuth

LoginHodSettles ==
    /\ auth.variant # 0
    /\ auth.logins > 0
    /\ \E o \in LoginBodies \union {HttpError} :
          auth' = LoginSettled(auth, o)
    /\ UNCHANGED notAuth

Logout ==
    /\ auth.variant # 0
    /\ auth' = LoggedOut(auth)
    /\ UNCHANGED notAuth

SetAuth ==
    /\ auth.variant # 0
    /\ \E hodData \in {Null, HodData}, tokenFromServer \in {Null, Token1, Token2} :
          auth' = AuthSet(auth, hodData, tokenFromServer)
    /\ UNCHANGED notAuth

AuthNext ==
    \/ AuthMounted
    \/ Renders
    \/ EffectRuns
    \/ GetHodProfileSettles
    \/ Login
    \/ LoginHodSettles
    \/ Logout
    \/ SetAuth

AuthSpec == Init /\ [][AuthNext]_vars

(***************************************************************************)
(* Properties of batchUpdateStudentsClient.                                *)
(***************************************************************************)
Occurrences(seq, x) == Cardinality({i \in DOMAIN seq : seq[i] = x})
Min(a, b) == IF a < b THEN a ELSE b

\* the call is batchUpdateStudentsClient and it passed line 148
UpdateStarted == args.fn = "update" /\ phase # "idle" /\ ~NothingToSend(allowed)
\* the concurrency option in force
Concurrency ==
    IF args.concurrency = Undefined THEN DefaultConcurrency ELSE args.concurrency.n
\* the ids of the call as strings, without repeats (read off the arguments)
InputIds ==
    IF args.fn # "none" /\ args.studentIds.t = "array"
    THEN {String(args.studentIds.a[i]) : i \in DOMAIN args.studentIds.a}
    ELSE {}
N == Cardinality(InputIds)
FailedIds(res) == [i \in DOMAIN res.failed |-> res.failed[i].id]
CalledIds == [i \in DOMAIN calls |-> calls[i].id]

\* C1: when batchUpdateStudentsClient resolves for N >= 1 ids and K >= 1, the
\* result has success.length + failed.length = N and every id is in exactly
\* one of success and failed, exactly once.
C1_ResultPartitionsIds ==
    (UpdateStarted /\ phase = "resolved" /\ Concurrency >= 1 /\ N >= 1) =>
        /\ ret.t = "object"
        /\ Len(ret.f.success) + Len(ret.f.failed) = N
        /\ \A id \in InputIds :
              Occurrences(ret.f.success, id) + Occurrences(FailedIds(ret.f), id) = 1

C1_Witness ==
    /\ UpdateStarted /\ phase = "resolved"
    /\ Concurrency = 2 /\ N = 3
    /\ Len(ret.f.success) = 1 /\ Len(ret.f.failed) = 2

\* C2: with K >= 1, at most K updateStudent calls are started and not yet
\* settled, and min(K, N) workers are spawned.
C2_AtMostKInFlight ==
    (UpdateStarted /\ Concurrency >= 1) =>
        /\ Len(calls) - done = Cardinality(InFlight)
        /\ Len(calls) - done <= Concurrency
        /\ Len(workers) = Min(Concurrency, N)

C2_Witness ==
    /\ UpdateStarted
    /\ Concurrency = 2 /\ N = 3
    /\ done = 1 /\ Len(calls) = 3 /\ Cardinality(InFlight) = 2

\* C3: every id is either still in the queue or was passed to updateStudent,
\* exactly once in all; no two calls in flight are for the same id; when the
\* batch resolves (K >= 1) updateStudent was called exactly once per id.
C3_EachIdCalledOnce ==
    UpdateStarted =>
        /\ \A id \in InputIds : Occurrences(CalledIds, id) + Occurrences(queue, id) = 1
        /\ \A v, w \in InFlight : workers[v].id = workers[w].id => v = w
        /\ (phase = "resolved" /\ Concurrency >= 1) =>
              /\ Len(calls) = N
              /\ \A id \in InputIds : Occurrences(CalledIds, id) = 1

C3_Witness ==
    /\ UpdateStarted /\ phase = "resolved"
    /\ Concurrency = 2 /\ N = 3 /\ Len(calls) = 3
    /\ Len(results.success) = 3

\* C4: the i-th onProgress invocation carries done = i and total = N, so done
\* goes up by one from 1 and never exceeds total; when the batch resolves
\* (K >= 1, callback given) there were exactly N invocations, the last one
\* with done = total.
C4_ProgressCountsUp ==
    UpdateStarted =>
        /\ \A i \in DOMAIN progress : progress[i] = [done |-> i, total |-> N]
        /\ Len(progress) <= N
        /\ (phase = "resolved" /\ Concurrency >= 1 /\ args.onProgress # "absent") =>
              /\ Len(progress) = N
              /\ N >= 1 => progress[N].done = progress[N].total

C4_Witness ==
    /\ UpdateStarted /\ phase = "resolved"
    /\ args.onProgress = "returns"
    /\ Concurrency = 2 /\ N = 3 /\ Len(progress) = 3
    /\ Len(results.failed) = 1

\* the error payloads a rejected call can leave in failed
ErrorPayloads == {ErrorOf(e) : e \in Errors}

\* what a step that records a failure does
C5_FailureStep ==
    (args.fn = "update" /\ Len(results'.failed) > Len(results.failed)) =>
        \E w \in InFlight :
            /\ \E e \in ErrorPayloads :
                  results'.failed = Append(results.failed, [id |-> workers[w].id, error |-> e])
            /\ results'.success = results.success
            /\ \A v \in DOMAIN workers : v # w => workers'[v] = workers[v]
            /\ args.onProgress # "mayThrow" =>
                  /\ workers'[w].st # "threw"
                  /\ phase' # "rejected"
                  /\ queue # <<>> =>
                        /\ workers'[w] = Awaiting(Head(queue))
                        /\ queue' = Tail(queue)
                        /\ calls' = Append(calls, UpdateCall(Head(queue), allowed))

C5_AllRecorded ==
    \A id \in InputIds :
        Occurrences(results.success, id) + Occurrences(FailedIds(results), id) = 1

\* C5: a step in which an updateStudent call is rejected appends {id, error}
\* for that worker's id to failed and leaves success and every other worker
\* as they were; unless onProgress throws, the worker goes on with the next
\* queued id and the batch is not rejected.  Once a failure is recorded (and
\* onProgress does not throw) every id of the batch ends up recorded and the
\* batch resolves.
C5_FailureDoesNotAbort ==
    /\ [][C5_FailureStep]_vars
    /\ (UpdateStarted /\ results.failed # <<>> /\ args.onProgress # "mayThrow")
          ~> (phase = "resolved" /\ C5_AllRecorded)

C5_Witness ==
    /\ UpdateStarted /\ phase = "running"
    /\ Concurrency = 1 /\ N = 3 /\ Len(calls) = 3
    /\ Len(results.failed) = 1 /\ results.failed[1].id = ids[1]
    /\ results.success = <<ids[2]>>

\* what the entry points resolve with: { success: [ids], failed: [{id, error}] }
IsBatchResult(v) ==
    /\ v.t = "object"
    /\ DOMAIN v.f = {"success", "failed"}
    /\ \A i \in DOMAIN v.f.success : v.f.success[i] \in InputIds
    /\ \A i \in DOMAIN v.f.failed :
          DOMAIN v.f.failed[i] = {"id", "error"} /\ v.f.failed[i].id \in InputIds

\* C6: with an onProgress that does not throw, the only rejection of the three
\* entry points is the pre-flight one of batchUpdateStudentsClient (no
\* network call made); whatever the network calls do, a settled promise is
\* resolved with a BatchResult.
C6_NeverRejectsOnceStarted ==
    /\ (phase = "rejected" /\ args.onProgress # "mayThrow") =>
          /\ args.fn = "update"
          /\ NothingToSend(allowed)
          /\ ret = NoValidFieldsError
          /\ calls = <<>>
    /\ phase = "resolved" => IsBatchResult(ret)

C6_Witness ==
    /\ phase = "resolved"
    /\ args.fn = "remove" /\ args.onProgress = "returns"
    /\ N = 3 /\ Len(ret.f.failed) = 3 /\ ret.f.success = <<>>

\* the state in which batchUpdateStudentsClient resolves
C7_ResolvedState ==
    (UpdateStarted /\ phase = "resolved" /\ Concurrency >= 1) =>
        /\ queue = <<>>
        /\ InFlight = {}
        /\ \A w \in DOMAIN workers : workers[w].st = "returned"
        /\ done = N

\* C7: batchUpdateStudentsClient resolves only when every worker has
\* returned: the queue is empty, no call is in flight and done = N (K >= 1);
\* and if every call settles and onProgress does not throw, a running batch
\* resolves.
C7_ResolvesAfterAllWorkers ==
    /\ []C7_ResolvedState
    /\ (UpdateStarted /\ phase = "running" /\ args.onProgress # "mayThrow")
          ~> (phase = "resolved")

C7_Witness ==
    /\ UpdateStarted /\ phase = "resolved"
    /\ args.onProgress = "absent"
    /\ Concurrency = 2 /\ N = 3 /\ done = 3

(***************************************************************************)
(* Properties of the sanitization of updates.                              *)
(***************************************************************************)
IsObject(u) == Truthy(u) /\ u.t = "object"
\* a semester that is the empty string, null or undefined
EmptySemester(v) == v = Str(<<>>) \/ v = Null \/ v = Undefined
\* a semester with content that is not the text of a number
NonNumericSemester(v) == ~EmptySemester(v) /\ IsNaN(Number(v))
\* a division that is null, undefined or empty after trimming
BlankDivision(v) == v = Null \/ v = Undefined \/ Trim(String(v)) = <<>>

\* updates is no object, or its semester (if any) is non-numeric and its
\* division (if any) is blank
NoFieldSurvives(u) ==
    IsObject(u) =>
        /\ HasOwn(u, "semester") => NonNumericSemester(u.f["semester"])
        /\ HasOwn(u, "division") => BlankDivision(u.f["division"])

PreflightRejected ==
    /\ phase = "rejected"
    /\ ret = NoValidFieldsError
    /\ calls = <<>>
    /\ progress = <<>>

\* C8: when updates is null or no object, or has only fields outside the
\* allow-list, a non-numeric semester, a blank division, the call is rejected
\* before any updateStudent call and any onProgress invocation, whatever the
\* ids.
C8_NothingValidRejected ==
    (args.fn = "update" /\ phase # "idle" /\ NoFieldSurvives(args.updates)) =>
        PreflightRejected

C8_Witness ==
    /\ PreflightRejected
    /\ args.updates = Obj([semester |-> Str(<<"a", "b", "c">>),
                           division |-> Str(<<" ", " ">>)])
    /\ args.studentIds = Arr(<<Str(<<"a">>), Num(1)>>)

\* C9: a semester that is "", null or undefined is dropped from the payload,
\* so updates with nothing else valid is rejected before any network call.
C9_EmptySemesterDropped ==
    (/\ args.fn = "update" /\ phase # "idle"
     /\ IsObject(args.updates)
     /\ HasOwn(args.updates, "semester") /\ EmptySemester(args.updates.f["semester"])
     /\ HasOwn(args.updates, "division") => BlankDivision(args.updates.f["division"]))
    => PreflightRejected

\* C10: every payload passed to updateStudent has keys among semester and
\* division only; its semester is the number Number(updates.semester), its
\* division a string that is not blank; {semester: "5", division: "A",
\* extra: "x"} gives {semester: 5, division: "A"}; all calls of a batch get
\* the same payload.
C10_PayloadIsSanitized ==
    args.fn = "update" =>
        \A i \in DOMAIN calls :
            LET p == calls[i].payload
            IN  /\ DOMAIN p \subseteq {"semester", "division"}
                /\ "semester" \in DOMAIN p =>
                      /\ p["semester"].t = "number" /\ ~IsNaN(p["semester"])
                      /\ p["semester"] = Number(args.updates.f["semester"])
                /\ "division" \in DOMAIN p =>
                      /\ p["division"].t = "string"
                      /\ Trim(p["division"].s) # <<>>
                /\ p = calls[1].payload
                /\ args.updates = FullUpdate =>
                      p = [semester |-> Num(5), division |-> Str(<<"A">>)]

(***************************************************************************)
(* Properties of the handling of the id list.                              *)
(***************************************************************************)
\* a list without its repeats: an element stays unless it occurs earlier
RECURSIVE WithoutRepeats(_)
WithoutRepeats(list) ==
    IF list = <<>> THEN <<>>
    ELSE LET front == SubSeq(list, 1, Len(list) - 1)
             last == list[Len(list)]
         IN  IF \E j \in DOMAIN front : front[j] = last
             THEN WithoutRepeats(front)
             ELSE Append(WithoutRepeats(front), last)

\* the studentIds argument with the repeats removed
OnceEach(studentIds) ==
    IF Truthy(studentIds) THEN Arr(WithoutRepeats(studentIds.a)) ELSE studentIds
\* invocation s, had it been called with the repeats removed
CalledOnceEach(s) == [s EXCEPT !.args.studentIds = OnceEach(@)]
\* the length of the id list as passed
RawLength == IF Truthy(args.studentIds) THEN Len(args.studentIds.a) ELSE 0

Invoked(a) ==
    CASE a.fn = "update" -> UpdateInvoked(a)
      [] a.fn = "delete" -> BulkInvoked(a, "deleteStudentsBulk")
      [] a.fn = "remove" -> BulkInvoked(a, "removeStudentsFromClass")

\* the call with the repeats removed starts in the same state (same ids,
\* queue, workers and network calls), and the same settling of a network
\* call takes the two invocations to the same state (same results, done,
\* progress, network calls and returned value)
C11_SameSteps ==
    /\ (phase = "idle" /\ phase' # "idle") =>
          Invoked(CalledOnceEach(This').args) = CalledOnceEach(This')
    /\ (phase # "idle" /\ This' # This /\ args.fn = "update") =>
          \E w \in InFlight, o \in Outcomes, throws \in BOOLEAN :
              /\ This' = WorkerSettled(This, w, o, throws)
              /\ WorkerSettled(CalledOnceEach(This), w, o, throws) = CalledOnceEach(This')
    /\ (phase # "idle" /\ This' # This /\ args.fn = "delete"
          /\ args.onProgress # "mayThrow") =>
          \E o \in Outcomes :
              /\ This' = DeleteSettledQuietly(This, o)
              /\ DeleteSettledQuietly(CalledOnceEach(This), o) = CalledOnceEach(This')
    /\ (phase # "idle" /\ This' # This /\ args.fn = "remove"
          /\ args.onProgress # "mayThrow") =>
          \E o \in Outcomes :
              /\ This' = RemoveSettledQuietly(This, o)
              /\ RemoveSettledQuietly(CalledOnceEach(This), o) = CalledOnceEach(This')

\* the ids worked on are the input ids once each, and every progress report
\* carries their number as total
C11_TotalIsDedupCount ==
    (phase # "idle" /\ (args.fn = "update" => ~NothingToSend(allowed))) =>
        /\ Len(ids) = N
        /\ \A id \in InputIds : Occurrences(ids, id) = 1
        /\ \A i \in DOMAIN progress : progress[i].total = N

\* C11: in all three entry points a call with an id list that has repeats
\* goes through the same states as the call with the repeats removed: same
\* result, same network calls, same progress sequence; and the total of
\* every progress report is the number of distinct ids, not the length of
\* the list passed.
C11_DedupIdempotent ==
    /\ [][C11_SameSteps]_vars
    /\ []C11_TotalIsDedupCount

C11_Witness ==
    /\ UpdateStarted /\ phase = "resolved"
    /\ RawLength = 3 /\ N = 2
    /\ Len(ret.f.success) + Len(ret.f.failed) = 2
    /\ Len(calls) = 2
    /\ Len(progress) = 2 /\ progress[2].total = 2

\* C12: a call of one of the three entry points with no id (an empty list,
\* null or undefined; for batchUpdateStudentsClient an update that passes
\* line 148) resolves at once with {success: [], failed: []}, without a
\* network call and without a progress report.
C12_NoIdsShortCircuit ==
    (phase # "idle" /\ N = 0 /\ (args.fn = "update" => ~NothingToSend(allowed))) =>
        /\ phase = "resolved"
        /\ ret = Obj(EmptyResults)
        /\ calls = <<>>
        /\ progress = <<>>
        /\ done = 0

C12_Witness ==
    /\ args.fn = "delete" /\ args.studentIds = Null /\ args.onProgress = "returns"
    /\ phase = "resolved"
    /\ ret = Obj([success |-> <<>>, failed |-> <<>>])
    /\ calls = <<>>

\* the statement of C13 as made: a call with no id is rejected before any
\* network call
C13_NoIdsRejected ==
    (phase # "idle" /\ N = 0) => (phase = "rejected" /\ calls = <<>>)

\* the call is rejected before any network call
C13_RejectedPreflight == phase = "rejected" /\ calls = <<>> /\ done = 0

\* C13: an empty id set is no validation error.  The only rejection before
\* any network call is that of batchUpdateStudentsClient for an update that
\* is empty after sanitization, whatever the id list; a call with no id and
\* anything to send is not rejected but resolves with the empty result.
C13_OnlyEmptyUpdateRejected ==
    phase # "idle" =>
        /\ C13_RejectedPreflight <=>
              (args.fn = "update" /\ DOMAIN Sanitize(args.updates) = {})
        /\ (N = 0 /\ ~C13_RejectedPreflight) =>
              (phase = "resolved" /\ ret = Obj(EmptyResults) /\ calls = <<>>)

C13_Witness ==
    /\ args.fn = "update" /\ args.studentIds = Arr(<<>>) /\ args.updates = FullUpdate
    /\ phase = "resolved"
    /\ ret = Obj(EmptyResults)

(***************************************************************************)
(* Properties of the single-call variants.                                 *)
(***************************************************************************)
\* the call is one of the two single-call variants, for at least one id
BulkStarted == args.fn \in {"delete", "remove"} /\ phase # "idle" /\ N >= 1
\* the name of the one network call of the variant
BulkOp == IF args.fn = "delete" THEN "deleteStudentsBulk" ELSE "removeStudentsFromClass"
\* the distinct ids of the call in the order of their first occurrence
DistinctIds == WithoutRepeats([i \in 1..RawLength |-> String(args.studentIds.a[i])])

\* C14: for at least one id, batchDeleteStudentsClient and
\* batchRemoveStudentsFromClassClient (with an onProgress that does not
\* throw) make exactly one network call, with all the distinct ids; when
\* that call is fulfilled success is the whole list and failed is empty;
\* when it is rejected success is empty and failed has one entry per id, in
\* order, all with one and the same error.
C14_OneCallAllOrNothing ==
    (BulkStarted /\ args.onProgress # "mayThrow") =>
        /\ calls = <<[op |-> BulkOp, ids |-> DistinctIds]>>
        /\ bulk = "pending" => (phase = "running" /\ results = EmptyResults)
        /\ bulk = "fulfilled" =>
              /\ phase = "resolved"
              /\ ret = Obj([success |-> DistinctIds, failed |-> <<>>])
        /\ bulk = "rejected" =>
              /\ phase = "resolved"
              /\ ret.f.success = <<>>
              /\ FailedIds(ret.f) = DistinctIds
              /\ \A i \in DOMAIN ret.f.failed : ret.f.failed[i].error = ret.f.failed[1].error
              /\ ret.f.failed[1].error \in Errors \cup ErrorPayloads

C14_Witness ==
    /\ BulkStarted /\ args.fn = "delete" /\ args.onProgress = "absent"
    /\ bulk = "rejected" /\ N = 3
    /\ Len(calls) = 1
    /\ ret.f.success = <<>> /\ Len(ret.f.failed) = 3
    /\ ret.f.failed[3].error = NetworkError.f.message

\* C15: in batchDeleteStudentsClient and batchRemoveStudentsFromClassClient
\* with N >= 1 ids and an onProgress that returns, there is no progress
\* report while the network call is pending, and once it has settled,
\* fulfilled or rejected, there is exactly one, {done: N, total: N}.
C15_OneReportAtCompletion ==
    (BulkStarted /\ args.onProgress = "returns") =>
        /\ bulk = "pending" => progress = <<>>
        /\ bulk \in {"fulfilled", "rejected"} =>
              /\ progress = <<[done |-> N, total |-> N]>>
              /\ phase = "resolved"

C15_Witness ==
    /\ BulkStarted /\ args.fn = "remove" /\ args.onProgress = "returns"
    /\ bulk = "fulfilled"
    /\ RawLength = 3 /\ N = 2
    /\ progress = <<[done |-> 2, total |-> 2]>>

\* C16: whenever batchDeleteStudentsClient or
\* batchRemoveStudentsFromClassClient returns for at least one id, every id
\* is in exactly one of success and failed, whatever the bulk call and the
\* progress callback do.
C16_BulkResultPartitionsIds ==
    (BulkStarted /\ phase = "resolved") =>
        \A id \in InputIds :
            Occurrences(ret.f.success, id) + Occurrences(FailedIds(ret.f), id) = 1

(***************************************************************************)
(* Properties of the list normalizers.                                     *)
(***************************************************************************)
\* the bodies of the normalizer scenario that hold the list [1,2,3]
BodiesWithList123 ==
    {List123, Obj([data |-> List123]), Obj([students |-> List123]),
     Obj([data |-> Obj([students |-> List123])])}

\* C19: getStudents returns [1,2,3] for the response bodies [1,2,3],
\* {data: [1,2,3]}, {students: [1,2,3]} and {data: {students: [1,2,3]}},
\* and [] for the bodies {} and null.
C19_StudentListExtracted ==
    norm.fn = "getStudents" =>
        /\ norm.body \in BodiesWithList123 => norm.out = List123
        /\ norm.body \in {Obj(EmptyFields), Null} => norm.out = Arr(<<>>)

\* the first array among the candidates, [] when there is none
RECURSIVE FirstArray(_)
FirstArray(candidates) ==
    IF candidates = <<>> THEN Arr(<<>>)
    ELSE IF IsArray(Head(candidates)) THEN Head(candidates)
         ELSE FirstArray(Tail(candidates))

\* C20: what a list normalizer returns is an array, and what getClasses
\* returns is the first array among res.data.data, res.data.classes and
\* res.data.data.classes, or [] when none of them is an array.
C20_AlwaysAnArray ==
    norm.fn # "none" =>
        /\ IsArray(norm.out)
        /\ norm.fn = "getClasses" =>
              norm.out = FirstArray(<<OptGet(norm.body, "data"), OptGet(norm.body, "classes"),
                                      OptGet(OptGet(norm.body, "data"), "classes")>>)

(***************************************************************************)
(* Properties of two invocations side by side.                             *)
(***************************************************************************)
\* the distinct ids invocation s was called with
OwnIds(s) == {String(s.args.studentIds.a[i]) : i \in DOMAIN s.args.studentIds.a}

\* the results, done counter, calls and progress of invocation s are about
\* the ids of s only
C17_OwnResult(s) ==
    LET own == OwnIds(s)
        failedIds == [i \in DOMAIN s.results.failed |-> s.results.failed[i].id]
    IN  /\ \A i \in DOMAIN s.progress :
              s.progress[i] = [done |-> i, total |-> Cardinality(own)]
        /\ s.done = Len(s.results.success) + Len(s.results.failed)
        /\ s.done = Len(s.progress)
        /\ \A i \in DOMAIN s.results.success : s.results.success[i] \in own
        /\ \A i \in DOMAIN failedIds : failedIds[i] \in own
        /\ \A i \in DOMAIN s.calls :
              s.calls[i].id \in own /\ s.calls[i].payload = Sanitize(s.args.updates)
        /\ \A id \in own :
              Occurrences(s.results.success, id) + Occurrences(failedIds, id)
                 + Cardinality({w \in InFlightOf(s) : s.workers[w].id = id})
                 + Occurrences(s.queue, id) = 1
        /\ s.phase = "resolved" =>
              /\ s.ret = Obj(s.results)
              /\ Len(s.progress) = Cardinality(own)
              /\ \A id \in own :
                    Occurrences(s.results.success, id) + Occurrences(failedIds, id) = 1

\* a step is a step of one invocation and leaves the other as it is
C17_OneAtATime == This' = This \/ other' = other

\* C17: when two batchUpdateStudentsClient calls run interleaved, a step of
\* one leaves the queue, done counter and results of the other untouched;
\* the results and calls of each are about its own ids, each own id is at
\* any time in exactly one of queue, in flight, success and failed, and the
\* progress reports of each count 1, 2, ... with its own N as total; the
\* value each resolves with holds exactly its own ids.
C17_InvocationsIsolated ==
    /\ [][C17_OneAtATime]_vars
    /\ [](phase # "idle" => C17_OwnResult(This))
    /\ [](other.phase # "idle" => C17_OwnResult(other))

C17_Witness ==
    /\ phase = "running" /\ other.phase = "running"
    /\ Len(args.studentIds.a) = 4 /\ done = 2
    /\ other.done = 1 /\ other.results.success = <<<<"b">>>> /\ other.queue = <<>>
    /\ results.failed # <<>> /\ results.failed[1].id = <<"b">>

(***************************************************************************)
(* Properties of the optional callback.                                    *)
(***************************************************************************)
\* C18: a call of one of the three entry points without onProgress (or
\* without the options argument) is not rejected, reports no progress, and
\* is at every step in the same phase, with the same results, the same
\* network calls and the same returned value as the same call with a
\* callback that returns, when the network calls settle alike.
C18_CallbackOptional ==
    phase # "idle" =>
        /\ args.onProgress = "absent" /\ other.args = WithCallback(args)
        /\ phase # "rejected"
        /\ progress = <<>>
        /\ phase = other.phase
        /\ results = other.results
        /\ calls = other.calls
        /\ ret = other.ret

C18_Witness ==
    /\ args.fn = "update" /\ args.concurrency = Undefined /\ args.onProgress = "absent"
    /\ phase = "resolved" /\ N = 3
    /\ Len(ret.f.failed) = 1 /\ Len(ret.f.success) = 2
    /\ progress = <<>> /\ Len(other.progress) = 3
    /\ other.ret = ret

\* the extractors of a list and of a single entity
ListExtractors == {"getStudents", "getClasses"}
EntityExtractors == {"getStudentById", "updateStudent", "deleteStudent", "deleteStudentsBulk"}
\* the body is null, undefined or {}
EmptyBody(b) == b \in {Null, Undefined, Obj(EmptyFields)}

\* C21: for a response body that is null, undefined or {} the list
\* extractors return [] and getStudentById, updateStudent, deleteStudent and
\* deleteStudentsBulk return null (or undefined); none of them throws.
C21_NeverThrows ==
    (norm.fn # "none" /\ EmptyBody(norm.body)) =>
        /\ norm.out # TypeError
        /\ norm.fn \in ListExtractors => norm.out = Arr(<<>>)
        /\ norm.fn \in EntityExtractors => Nullish(norm.out)

\* C22: the ids every entry point works on are the String()s of the input
\* without repeats, in the order of their first occurrence (1 and "1" are
\* one id); the i-th updateStudent call started by
\* batchUpdateStudentsClient is for the i-th of them, and the single-call
\* variants send them and report them, as success or as failed, in that
\* order.
C22_FirstOccurrenceOrder ==
    (phase # "idle" /\ (args.fn = "update" => ~NothingToSend(allowed))) =>
        /\ ids = DistinctIds
        /\ args.fn = "update" =>
              /\ Len(calls) <= Len(DistinctIds)
              /\ \A i \in DOMAIN calls : calls[i].id = DistinctIds[i]
        /\ BulkStarted =>
              /\ calls[1].ids = DistinctIds
              /\ phase = "resolved" =>
                    /\ ret.f.success \in {<<>>, DistinctIds}
                    /\ FailedIds(ret.f) \in {<<>>, DistinctIds}

C22_Witness ==
    /\ UpdateStarted /\ Concurrency = 1
    /\ args.studentIds = Arr(<<Str(<<"b">>), Num(1), Str(<<"1">>)>>)
    /\ Len(calls) = 2
    /\ calls[1].id = <<"b">> /\ calls[2].id = <<"1">>
    /\ queue = <<>>

(***************************************************************************)
(* Properties of a throwing callback and of a concurrency below 1.         *)
(***************************************************************************)
\* batchUpdateStudentsClient was rejected after it had started
RejectedWhileRunning == UpdateStarted /\ phase = "rejected"

\* the step in which the batch is rejected: one worker ends with the
\* exception, nothing else stops
C24_RejectionStep ==
    (UpdateStarted /\ phase = "running" /\ phase' = "rejected") =>
        /\ ret' = CallbackError
        /\ \E w \in InFlight :
              /\ workers'[w] = Threw
              /\ \A v \in DOMAIN workers : v # w => workers'[v] = workers[v]
        /\ queue' = queue
        /\ calls' = calls
        /\ done' = done + 1

\* a worker that settles after the rejection without a throw of onProgress
\* starts the call for the next queued id
C24_GoesOnStep ==
    (RejectedWhileRunning /\ done' = done + 1 /\ queue # <<>>
       /\ \A w \in DOMAIN workers : workers[w].st = "await" => workers'[w].st # "threw") =>
        /\ calls' = Append(calls, UpdateCall(Head(queue), allowed))
        /\ queue' = Tail(queue)
        /\ phase' = "rejected" /\ ret' = ret

\* C24: batchUpdateStudentsClient is rejected after its start only by a
\* throwing onProgress, and then with the callback's exception instead of a
\* BatchResult; the step of the rejection ends one worker only, and the
\* workers that settle afterwards still record their result, tick and
\* start the updateStudent call of the next queued id.
C24_ThrowingCallbackRejects ==
    /\ [](RejectedWhileRunning =>
            /\ args.onProgress = "mayThrow"
            /\ ret = CallbackError
            /\ \E w \in DOMAIN workers : workers[w] = Threw)
    /\ [][C24_RejectionStep]_vars
    /\ [][C24_GoesOnStep]_vars

\* the first settlement rejected the batch, the second started the third call
C24_Witness ==
    /\ RejectedWhileRunning
    /\ Concurrency = 2 /\ N = 3
    /\ workers[1] = Threw /\ workers[2] = Awaiting(ids[3])
    /\ results.success = <<ids[1], ids[2]>>
    /\ Len(calls) = 3 /\ done = 2

\* C25: batchUpdateStudentsClient with something to send, at least one id
\* and a concurrency of 0 or less starts no worker, makes no updateStudent
\* call, reports no progress and resolves with {success: [], failed: []};
\* every id is still in the queue.
C25_NoWorkerBelowOne ==
    (UpdateStarted /\ Concurrency < 1 /\ N >= 1) =>
        /\ phase = "resolved"
        /\ workers = <<>>
        /\ calls = <<>>
        /\ progress = <<>>
        /\ done = 0
        /\ ret = Obj(EmptyResults)
        /\ queue = ids /\ Len(queue) = N

C25_Witness ==
    /\ UpdateStarted /\ phase = "resolved"
    /\ args.concurrency = Num(0) /\ args.onProgress = "returns"
    /\ N = 3
    /\ ret = Obj([success |-> <<>>, failed |-> <<>>]) /\ Len(queue) = 3

(***************************************************************************)
(* Properties of StudentPage.                                              *)
(***************************************************************************)
\* the handlers of the page that await their batch
AwaitingBatch(p) == {h \in DOMAIN p.handlers : p.handlers[h].st = "batch"}
\* the result a resolved batch was resolved with
Resolved(b) == b.ret.f
\* what the page must show for result res of a batch
Reported(q, res) ==
    /\ q.toast.kind \in {"success", "warn"}
    /\ q.toast.kind = "success" <=> Len(res.failed) = 0
    /\ q.toast.success = Len(res.success)
    /\ q.toast.kind = "warn" => q.toast.failed = Len(res.failed)
\* page q shows an empty selection and one more getStudents call than p
ClearedAndRefetched(p, q) ==
    /\ q.selectedIds = <<>>
    /\ q.fetching = p.fetching + 1

\* C23: when the batch a handler of StudentPage awaits (batch update or
\* batch delete) resolves, the page shows a success notification with the
\* success count exactly when failed is empty and otherwise a warning with
\* both counts; in both cases the selection is cleared and the list is
\* fetched again.
C23_NoticeAfterBatch ==
    \A h \in AwaitingBatch(page) :
        IF page.handlers[h].kind = "update"
        THEN \A w \in InFlightOf(page.handlers[h].batch), o \in {Ok, HttpError} :
                LET b == WorkerSettled(page.handlers[h].batch, w, o, FALSE)
                    q == UpdateStudentSettled(page, h, w, o)
                IN  b.phase = "resolved" =>
                        Reported(q, Resolved(b)) /\ ClearedAndRefetched(page, q)
        ELSE \A o \in {Ok, NetworkError} :
                LET b == DeleteSettledQuietly(page.handlers[h].batch, o)
                    q == DeleteStudentsBulkSettled(page, h, o)
                IN  Reported(q, Resolved(b)) /\ ClearedAndRefetched(page, q)

\* a batch update of two students ended with one updated and one failed
C23_Witness ==
    /\ page.toast = Toast("warn", "update", 1, 1)
    /\ page.selectedIds = <<>>
    /\ page.fetching = 1
    /\ page.handlers = <<>>

NoRepeat(list) == \A i, j \in DOMAIN list : list[i] = list[j] => i = j
\* the handlers of the page that wait for their confirm dialog
AwaitingConfirm(p) == {h \in DOMAIN p.handlers : p.handlers[h].st = "confirm"}
\* page q has a handler more than page p: handleApplyBatch awaits its batch
Started(p, q) == Len(q.handlers) > Len(p.handlers)
\* the batch of the handler that page q has more than page p
NewBatch(q) == q.handlers[Len(q.handlers)].batch

\* C26: selectedIds of StudentPage never holds the same id twice, whatever
\* checkbox toggles, toggleSelectVisible, selectAllVisible, clearSelection,
\* single deletes and batch completions happen; so the total the handlers
\* announce before their batch call (selectedIds.length) is the total of
\* the runner (the number of distinct ids).
C26_SelectionHasNoRepeats ==
    /\ NoRepeat(page.selectedIds)
    /\ \A updates \in PageUpdates :
          LET q == ApplyBatchCalled(page, updates)
          IN  Started(page, q) =>
                  /\ q.progress = [done |-> 0, total |-> Len(NewBatch(q).ids)]
                  /\ Len(page.selectedIds) = Len(NewBatch(q).ids)
    /\ \A h \in AwaitingConfirm(page) :
          LET q == BatchDeleteConfirmed(page, h, TRUE)
          IN  /\ q.progress = [done |-> 0, total |-> Len(q.handlers[h].batch.ids)]
              /\ Len(page.handlers[h].selectedIds) = Len(q.handlers[h].batch.ids)

\* a batch over both students was just started and announced with total 2
C26_Witness ==
    /\ AwaitingBatch(page) = {1}
    /\ Len(page.selectedIds) = 2
    /\ page.handlers[1].batch.done = 0
    /\ page.progress = [done |-> 0, total |-> 2]

\* C27: batchUpdating of StudentPage is true when a handler's batch call
\* starts and false again when the handler finishes, resolved or rejected;
\* it is never true with no batch in flight.
C27_BatchUpdatingWhileInFlight ==
    /\ page.batchUpdating => AwaitingBatch(page) # {}
    /\ \A updates \in PageUpdates :
          LET q == ApplyBatchCalled(page, updates)
          IN  page.selectedIds # <<>> => (q.batchUpdating <=> Started(page, q))
    /\ \A h \in AwaitingConfirm(page) :
          LET q == BatchDeleteConfirmed(page, h, TRUE)
          IN  q.batchUpdating /\ h \in AwaitingBatch(q)
    /\ \A h \in AwaitingBatch(page) :
          IF page.handlers[h].kind = "update"
          THEN \A w \in InFlightOf(page.handlers[h].batch), o \in {Ok, HttpError} :
                  LET q == UpdateStudentSettled(page, h, w, o)
                  IN  Len(q.handlers) < Len(page.handlers) => ~q.batchUpdating
          ELSE \A o \in {Ok, NetworkError} :
                  ~DeleteStudentsBulkSettled(page, h, o).batchUpdating

\* a batch over both students is over and batchUpdating is false again
C27_Witness ==
    /\ page.progress = [done |-> 2, total |-> 2]
    /\ page.handlers = <<>>
    /\ ~page.batchUpdating

\* C28: when batchUpdateStudentsClient rejects pre-flight inside
\* handleApplyBatch, selectedIds, showSelection and batchModalOpen keep
\* their values, the list is not fetched again and an error notification is
\* shown; only progress (done 0), progressOpen and batchUpdating are
\* touched.
C28_RejectionLeavesSelection ==
    \A updates \in PageUpdates :
        LET b == UpdateInvoked(PageArgs("update", page.selectedIds, updates))
            q == ApplyBatchCalled(page, updates)
        IN  (page.selectedIds # <<>> /\ b.phase = "rejected") =>
                /\ q.toast = Toast("error", "update", 0, 0)
                /\ q = [page EXCEPT !.toast = q.toast,
                                    !.progress = [done |-> 0, total |-> Len(page.selectedIds)],
                                    !.progressOpen = TRUE,
                                    !.batchUpdating = FALSE]

\* the modal submitted updates with nothing to send for a selection of two
C28_Witness ==
    /\ page.toast = Toast("error", "update", 0, 0)
    /\ Len(page.selectedIds) = 2
    /\ page.batchModalOpen
    /\ page.progressOpen
    /\ page.progress = [done |-> 0, total |-> 2]
    /\ ~page.batchUpdating

(***************************************************************************)
(* Properties of AuthProvider.                                             *)
(***************************************************************************)
\* C29: once logout() of AuthProvider has run, hod and token are null until
\* the next login or setAuth, under every interleaving, also when a
\* getHodProfile call started before the logout is fulfilled after it.
C29_LoggedOutStaysLoggedOut ==
    (auth.variant # 0 /\ auth.loggedOut) => (auth.hod = Null /\ auth.token = Null)

\* C30: a getHodProfile call of AuthProvider that fails clears only the
\* token it was made for: a token that a login or setAuth installed after
\* the call started stays in the state and in localStorage (hodToken).
C30_FailureClearsOwnTokenOnly ==
    auth.variant # 0 =>
        \A i \in DOMAIN auth.requests :
            (/\ auth.requests[i].overtaken
             /\ Truthy(auth.token)
             /\ auth.requests[i].token # auth.token) =>
                LET q == ProfileSettled(auth, i, HttpError)
                IN  q.token = auth.token /\ q.stored = auth.stored

====
